---------------------------- MODULE Spec2Model ----------------------------
(***************************************************************************)
(* A model of the gtrace generator (src/unnamed/part_000): the Writer with *)
(* its scope allocator, import resolver and emitter, and the behaviour of  *)
(* the code it generates (Compose, isZero, the hook forwarders).           *)
(***************************************************************************)
EXTENDS Integers, Sequences, FiniteSets, TLC

VARIABLES
    scope,      \* Writer.scope: the stack of scopes, the back is the last one
    pkgScope,   \* the names w.pkg.Scope().Lookup finds (package level symbols)
    panicked,   \* NoPanic, or the message of the panic that aborted the run
    last,       \* the last allocator call and what it returned
    nops        \* number of allocator calls made (bounded by MaxOps)

allocVars == <<scope, pkgScope, panicked, last, nops>>

VARIABLES
    trA,        \* the trace a: hook name -> the hook set on it, or Nil
    trB,        \* the trace b
    panicCb,    \* whether the panic callback option is given to Compose
    trRet,      \* the trace Compose(a, b) returned, or NotComposed
    hookFn,     \* the Func of the hooks: the kinds of the results along its stages
    cur,        \* the value the last call returned to the caller
    curFn,      \* the Func of cur, when cur is a continuation
    lastCall    \* the last call of generated code and what it did

runVars == <<trA, trB, panicCb, trRet, hookFn, cur, curFn, lastCall>>

VARIABLES
    bw,         \* Writer.bw: the bytes buffered, in pieces, and their number
    Output,     \* the bytes Writer.Output has received, in pieces
    atEOL,      \* Writer.atEOL
    depth,      \* Writer.depth
    std         \* Writer.std: NoStd (nil), or the set of standard library roots

emitVars == <<bw, Output, atEOL, depth, std>>

VARIABLES
    deps,       \* the dependencies collected so far ([]dep)
    goroot,     \* the directories os.ReadDir lists in GOROOT/src, or Unreadable
    imported    \* what importDeps did: the list after deduplication and sorting

impVars == <<deps, goroot, imported>>

VARIABLES
    once,       \* Writer.once: whether init has run
    runs        \* the calls of Write made: the Package and what reached Output

genVars == <<once, runs>>

VARIABLES
    doneChan,   \* Connector.done: whether the channel is closed
    onCLose,    \* Connector.onCLose: for each callback, the calls made of it
    conns,      \* Connector.conns: the ids of the connections in the map
    opened,     \* the ids Connect has drawn so far
    ctxDone,    \* whether the context of the reaper goroutine is done
    closing,    \* for each caller of Close: where its call is, and its result
    reaper,     \* the goroutine Open starts: where it is, what Range has left
    reaped      \* the connections the reaper closed: id, and whether a Close
                \* had returned nil before

connVars == <<doneChan, onCLose, conns, opened, ctxDone, closing, reaper, reaped>>

vars == <<allocVars, runVars, emitVars, impVars, genVars, connVars>>

-----------------------------------------------------------------------------
(* Strings.  TLC cannot index into a string, so every string the model     *)
(* takes apart is listed here with its runes.                              *)

Runes(s) ==
    CASE s = "t"      -> <<"t">>
      [] s = "x"      -> <<"x">>
      [] s = "fn"     -> <<"f", "n">>
      [] s = "type"   -> <<"t", "y", "p", "e">>
      [] s = "error"  -> <<"e", "r", "r", "o", "r">>
      [] s = "string" -> <<"s", "t", "r", "i", "n", "g">>
      [] s = "stdA"   -> <<"s", "t", "d", "A">>
      [] s = "stdA/x" -> <<"s", "t", "d", "A", "/", "x">>
      [] s = "pkgA"   -> <<"p", "k", "g", "A">>
      [] s = "pkgA/x" -> <<"p", "k", "g", "A", "/", "x">>
      [] s = "pkgB"   -> <<"p", "k", "g", "B">>
      [] s = "cmd"    -> <<"c", "m", "d">>
      [] s = "std"    -> <<"s", "t", "d">>
      [] s = "Driver" -> <<"D", "r", "i", "v", "e", "r">>
      [] s = "Session" -> <<"S", "e", "s", "s", "i", "o", "n">>
      [] s = "DriverConn" -> <<"D", "r", "i", "v", "e", "r", "C", "o", "n", "n">>
      [] s = "ConnTake" -> <<"C", "o", "n", "n", "T", "a", "k", "e">>
      [] s = "Take"   -> <<"T", "a", "k", "e">>
      [] s = "Table"  -> <<"T", "a", "b", "l", "e">>
      [] s = "OnTable" -> <<"O", "n", "T", "a", "b", "l", "e">>
      [] s = "Bad"    -> <<"B", "a", "d">>
      [] s = "context" -> <<"c", "o", "n", "t", "e", "x", "t">>
      [] s = "Context" -> <<"C", "o", "n", "t", "e", "x", "t">>
      [] s = "own"    -> <<"o", "w", "n">>
      [] s = "StartInfo" -> <<"S", "t", "a", "r", "t", "I", "n", "f", "o">>
      [] s = "DoneInfo" -> <<"D", "o", "n", "e", "I", "n", "f", "o">>
      [] s = "Addr"   -> <<"A", "d", "d", "r">>
      [] s = "Error"  -> <<"E", "r", "r", "o", "r">>
      [] s = "int"    -> <<"i", "n", "t">>
      [] s = "id"     -> <<"i", "d">>
      [] s = "ctx"    -> <<"c", "t", "x">>
      [] s = "n"      -> <<"n">>
      [] s = "T"      -> <<"T">>
      [] s = "U"      -> <<"U">>
      [] s = "V"      -> <<"V">>
      [] s = "res"    -> <<"r", "e", "s">>
      [] s = "options" -> <<"o", "p", "t", "i", "o", "n", "s">>

\* the printable ASCII characters in the order of their codes, from 32 on (the
\* backslash and the backquote, which no name here holds, by a placeholder)
Ascii ==
    <<" ", "!", "\"", "#", "$", "%", "&", "'", "(", ")", "*", "+", ",", "-", ".", "/",
      "0", "1", "2", "3", "4", "5", "6", "7", "8", "9", ":", ";", "<", "=", ">", "?",
      "@", "A", "B", "C", "D", "E", "F", "G", "H", "I", "J", "K", "L", "M", "N", "O",
      "P", "Q", "R", "S", "T", "U", "V", "W", "X", "Y", "Z", "[", "(backslash)", "]", "^", "_",
      "(backquote)", "a", "b", "c", "d", "e", "f", "g", "h", "i", "j", "k", "l", "m", "n", "o",
      "p", "q", "r", "s", "t", "u", "v", "w", "x", "y", "z", "{", "|", "}", "~">>
Code(c) == 31 + CHOOSE i \in 1..Len(Ascii) : Ascii[i] = c

\* the bytes of a string
Bytes(s) == [i \in 1..Len(Runes(s)) |-> Code(Runes(s)[i])]

RECURSIVE Join(_)
Join(rs) == IF rs = <<>> THEN "" ELSE Head(rs) \o Join(Tail(rs))

\* unicode.IsNumber and unicode.IsLetter, on the runes of ASCII
IsDigit(c) == Code(c) >= 48 /\ Code(c) <= 57
IsLetter(c) == (Code(c) >= 65 /\ Code(c) <= 90) \/ (Code(c) >= 97 /\ Code(c) <= 122)
\* unicode.ToUpper and unicode.ToLower
ToUpper(c) == IF Code(c) >= 97 /\ Code(c) <= 122 THEN Ascii[Code(c) - 32 - 31] ELSE c
ToLower(c) == IF Code(c) >= 65 /\ Code(c) <= 90 THEN Ascii[Code(c) + 32 - 31] ELSE c

\* firstChar (part_000:936): the first rune of s
firstChar(s) == Runes(s)[1]

\* exported (part_000:920) and unexported (part_000:928), on runes
exportedOf(rs) == <<ToUpper(rs[1])>> \o Tail(rs)
unexportedOf(rs) == <<ToLower(rs[1])>> \o Tail(rs)
exported(s) == Join(exportedOf(Runes(s)))
unexported(s) == Join(unexportedOf(Runes(s)))

\* tempName (part_000:977) of two names, on runes
tempNameOf(a, b) == unexportedOf(a) \o exportedOf(b)

\* ident (part_000:944), on runes: the leading digits are dropped, then every
\* rune that is no letter, digit or underscore; what is no identifier gets "_"
identOf(rs) ==
    LET RECURSIVE dropDigits(_)
        dropDigits(s) == IF s # <<>> /\ IsDigit(Head(s)) THEN dropDigits(Tail(s)) ELSE s
        \* token.IsIdentifier
        isIdentifier(s) ==
            /\ s # <<>>
            /\ ~IsDigit(s[1])
            /\ Join(s) \notin {"break", "case", "chan", "const",
                   "continue", "default", "defer", "else", "fallthrough",
                   "for", "func", "go", "goto", "if", "import",
                   "interface", "map", "package", "range", "return",
                   "select", "struct", "switch", "type", "var"}
        identified(s) == IF isIdentifier(s) THEN s ELSE <<"_">> \o s
    IN  identified(SelectSeq(dropDigits(rs),
                             LAMBDA c : c = "_" \/ IsLetter(c) \/ IsDigit(c)))

\* token.IsKeyword: the reserved words of Go
Keywords ==
    {"break", "case", "chan", "const", "continue", "default", "defer", "else",
     "fallthrough", "for", "func", "go", "goto", "if", "import", "interface",
     "map", "package", "range", "return", "select", "struct", "switch", "type",
     "var"}

\* types.Universe: the predeclared identifiers of Go
Predeclared ==
    {"any", "bool", "byte", "comparable", "complex64", "complex128", "error",
     "float32", "float64", "int", "int8", "int16", "int32", "int64", "rune",
     "string", "uint", "uint8", "uint16", "uint32", "uint64", "uintptr",
     "true", "false", "iota", "nil", "append", "cap", "clear", "close",
     "complex", "copy", "delete", "imag", "len", "make", "max", "min", "new",
     "panic", "print", "println", "real", "recover"}

isPredeclared(name) == name \in Predeclared

-----------------------------------------------------------------------------
(* Bounds of the allocator specification.                                  *)

MaxOps == 3        \* allocator calls in one run
MaxScopes == 2     \* depth of the scope stack

BaseNames == {"t", "type", "error"}
PkgNames == {"t", "t1"}
\* the source lines of the callers of declare and mustDeclare (two of each kind
\* suffice to tell an earlier declaration from a later one) and of capture
Sites == {295, 623}
CaptureSite == 360
CaptureArgs == {<<"t">>, <<"t", "e">>, <<"e", "e">>}

-----------------------------------------------------------------------------
(* Scope allocator.  A scope is the map scope.vars: name -> where.         *)

EmptyScope == [n \in {} |-> 0]

\* scope.set (part_000:998): register v unless it is taken
scopeHas(s, v) == v \in DOMAIN s
scopeSet(s, v, site) == [n \in DOMAIN s \cup {v} |-> IF n = v THEN site ELSE s[n]]

\* scope.where (part_000:1012)
scopeWhere(s, v) == s[v]

Back(stack) == stack[Len(stack)]
SetBack(stack, s) == [stack EXCEPT ![Len(stack)] = s]

\* Writer.isGlobalScope (part_000:125)
isGlobalScope(stack) == Len(stack) = 1

\* candidate, with the suffixes counted from 0
candidateFromZero(name, i) == IF i > 0 THEN name \o ToString(i - 1) ELSE name

\* the candidate of iteration i of declare's loop (part_000:105-108)
candidate(name, i) == IF i > 0 THEN name \o ToString(i) ELSE name

\* declareLoop, without the look-up in the package scope
RECURSIVE declareLoopNoPkg(_, _, _, _, _)
declareLoopNoPkg(stack, pkgs, name, i, site) ==
    LET v == candidate(name, i)
        s == Back(stack)
    IN  IF v \in Keywords THEN declareLoopNoPkg(stack, pkgs, name, i + 1, site)
        ELSE IF ~scopeHas(s, v)
             THEN [scope |-> SetBack(stack, scopeSet(s, v, site)), v |-> v]
        ELSE declareLoopNoPkg(stack, pkgs, name, i + 1, site)

\* one pass of the loop of declare (part_000:104-118), from iteration i
RECURSIVE declareLoop(_, _, _, _, _)
declareLoop(stack, pkgs, name, i, site) ==
    LET v == candidate(name, i)
        s == Back(stack)
    IN  IF v \in Keywords THEN declareLoop(stack, pkgs, name, i + 1, site)
        ELSE IF isGlobalScope(stack) /\ v \in pkgs
             THEN declareLoop(stack, pkgs, name, i + 1, site)
        ELSE IF ~scopeHas(s, v)
             THEN [scope |-> SetBack(stack, scopeSet(s, v, site)), v |-> v]
        ELSE declareLoop(stack, pkgs, name, i + 1, site)

\* Writer.declare (part_000:99)
declare(stack, pkgs, name, site) ==
    declareLoop(stack, pkgs,
                IF isPredeclared(name) THEN firstChar(name) ELSE name, 0, site)

NoCall == [op |-> "none"]

\* the panic message of mustDeclare (part_000:92-95)
NoPanic == [kind |-> "none"]
collisionMsg(name, where) == [kind |-> "HardCollision", name |-> name, where |-> where]
\* the panic message of capture (part_000:133)
captureMsg(v) == [kind |-> "capture", name |-> v]

\* mustDeclare, reporting the failing call instead of the earlier declaration
mustDeclareOwnSite(stack, name, site) ==
    LET s == Back(stack)
    IN  IF ~scopeHas(s, name)
        THEN [scope |-> SetBack(stack, scopeSet(s, name, site)), panic |-> NoPanic]
        ELSE [scope |-> stack, panic |-> collisionMsg(name, site)]

\* Writer.mustDeclare (part_000:88)
mustDeclare(stack, name, site) ==
    LET s == Back(stack)
    IN  IF ~scopeHas(s, name)
        THEN [scope |-> SetBack(stack, scopeSet(s, name, site)), panic |-> NoPanic]
        ELSE [scope |-> stack, panic |-> collisionMsg(name, scopeWhere(s, name))]

\* a capture that takes over a name that is registered already
RECURSIVE captureOverwrite(_, _, _)
captureOverwrite(stack, names, site) ==
    IF names = <<>> THEN [scope |-> stack, panic |-> NoPanic]
    ELSE captureOverwrite(SetBack(stack, scopeSet(Back(stack), Head(names), site)),
                          Tail(names), site)

\* Writer.capture (part_000:129)
RECURSIVE capture(_, _, _)
capture(stack, names, site) ==
    IF names = <<>> THEN [scope |-> stack, panic |-> NoPanic]
    ELSE LET s == Back(stack)
             v == Head(names)
         IN  IF scopeHas(s, v)
             THEN [scope |-> stack, panic |-> captureMsg(v)]
             ELSE capture(SetBack(stack, scopeSet(s, v, site)), Tail(names), site)

-----------------------------------------------------------------------------
(* Emitter.  The text is kept in pieces: the bytes lo..hi of a string that *)
(* was written.  bufio.Writer passes its buffer on to Output whenever the  *)
(* buffer is full, and when it is flushed.                                 *)

BufSize == 4096     \* bufio.NewWriter: the default size of the buffer

EmptyBuf == [buf |-> <<>>, n |-> 0]
Piece(s, lo, hi) == [s |-> s, lo |-> lo, hi |-> hi]
NoStd == [known |-> FALSE, roots |-> {}]

\* the Writer as a value: what the operators below take and return
Writer(b, o, e, d, sc, pk, st, pn) ==
    [bw |-> b, Output |-> o, atEOL |-> e, depth |-> d, scope |-> sc, pkg |-> pk,
     std |-> st, panic |-> pn]

\* bufio.Writer.Available and Flush
Available(w) == BufSize - w.bw.n
Flush(w) == [w EXCEPT !.Output = @ \o w.bw.buf, !.bw = EmptyBuf]

put(w, pc) ==
    [w EXCEPT !.bw = [buf |-> Append(@.buf, pc), n |-> @.n + (pc.hi - pc.lo + 1)]]

\* bufio.Writer.WriteString of the bytes of s from lo on: while they do not
\* fit, fill the buffer and flush it
RECURSIVE writeFrom(_, _, _)
writeFrom(w, s, lo) ==
    LET rest == Len(s) - lo + 1
        k == Available(w)
    IN  IF rest > k
        THEN writeFrom(Flush(IF k > 0 THEN put(w, Piece(s, lo, lo + k - 1)) ELSE w),
                       s, lo + k)
        ELSE IF rest > 0 THEN put(w, Piece(s, lo, Len(s)))
        ELSE w

\* w.bw.WriteString (part_000:916); nothing runs after a panic
WriteString(w, s) == IF w.panic # NoPanic THEN w ELSE writeFrom(w, s, 1)

\* w.bw.WriteByte (part_000:904, 911)
WriteByte(w, c) ==
    IF w.panic # NoPanic THEN w
    ELSE put(IF Available(w) <= 0 THEN Flush(w) ELSE w, Piece(c, 1, 1))

RECURSIVE writeTabs(_, _)
writeTabs(w, n) == IF n <= 0 THEN w ELSE writeTabs(WriteByte(w, "\t"), n - 1)

RECURSIVE writeArgs(_, _)
writeArgs(w, args) ==
    IF args = <<>> THEN w ELSE writeArgs(WriteString(w, Head(args)), Tail(args))

\* code, which forgets to indent after an end of line
codeNoIndent(w, args) == writeArgs([w EXCEPT !.atEOL = FALSE], args)

\* Writer.code (part_000:908)
code(w, args) ==
    IF w.panic # NoPanic THEN w
    ELSE IF w.atEOL
    THEN writeArgs([writeTabs(w, w.depth) EXCEPT !.atEOL = FALSE], args)
    ELSE writeArgs(w, args)

\* Writer.line (part_000:902)
line(w, args) ==
    IF w.panic # NoPanic THEN w
    ELSE [WriteByte(code(w, args), "\n") EXCEPT !.atEOL = TRUE]

\* no Connector is open
InitConnIdle ==
    /\ doneChan = FALSE
    /\ onCLose = <<>>
    /\ conns = {}
    /\ opened = {}
    /\ ctxDone = FALSE
    /\ closing = <<>>
    /\ reaper = [pc |-> "none", left |-> {}]
    /\ reaped = {}

InitEmitIdle ==
    /\ bw = EmptyBuf
    /\ Output = <<>>
    /\ atEOL = FALSE
    /\ depth = 0
    /\ std = NoStd
    /\ once = FALSE
    /\ runs = <<>>

-----------------------------------------------------------------------------
(* Import resolver.                                                        *)

MaxDeps == 3     \* the list of dependencies is extended while it is shorter

OwnPath == "own"     \* w.pkg.Path()
Named(path, pkgName, name) ==
    [kind |-> "named", hasPkg |-> TRUE, pkgPath |-> path, pkgName |-> pkgName,
     name |-> name, isStruct |-> FALSE, fields |-> <<>>]
Universe(name) ==
    [kind |-> "named", hasPkg |-> FALSE, pkgPath |-> "", pkgName |-> "", name |-> name,
     isStruct |-> FALSE, fields |-> <<>>]
Basic(name) == [kind |-> "basic", name |-> name]
Pointer(t) == [kind |-> "pointer", elem |-> t]

\* the types of the parameters the dependencies are collected from; pkgB.S is
\* a struct with fields of the types pkgA.T and pkgA.U
ImportTypes ==
    {Named("stdA", "stdA", "T"), Named("stdA/x", "x", "T"), Named("pkgA", "pkgA", "T"),
     [Named("pkgB", "pkgB", "S") EXCEPT
         !.isStruct = TRUE,
         !.fields = <<[Name |-> "A", Type |-> Named("pkgA", "pkgA", "T"), Exported |-> TRUE],
                      [Name |-> "b", Type |-> Named("stdA", "stdA", "T"), Exported |-> FALSE],
                      [Name |-> "C", Type |-> Named("pkgA", "pkgA", "U"), Exported |-> TRUE]>>],
     Named("pkgA/x", "x", "V"),
     Pointer(Named("pkgB", "pkgB", "T")), Named(OwnPath, "own", "T"),
     Universe("error"), Basic("int")}

\* what os.ReadDir(GOROOT/src) may give: an error, or entries
Unreadable == [ok |-> FALSE, entries |-> {}]
Listing(dirs, files) ==
    [ok |-> TRUE,
     entries |-> {[name |-> d, isDir |-> TRUE] : d \in dirs}
                 \cup {[name |-> f, isDir |-> FALSE] : f \in files}]
Goroots ==
    {Unreadable, Listing({"stdA", "cmd"}, {"pkgB"}), Listing({"std", "pkgA"}, {}),
     Listing({}, {})}

\* Writer.typeImports (part_000:144)
RECURSIVE typeImports(_, _)
typeImports(dst, t) ==
    IF t.kind = "pointer" THEN typeImports(dst, t.elem)
    ELSE IF t.kind # "named" THEN dst
    ELSE IF t.hasPkg /\ t.pkgPath # OwnPath
         THEN Append(dst, [pkgPath |-> t.pkgPath, pkgName |-> t.pkgName,
                           typName |-> t.name])
    ELSE dst

\* Writer.ensureStdLibMapping (part_000:256)
ensureStdLibMapping(w, root) ==
    IF w.panic # NoPanic \/ w.std.known THEN w
    ELSE IF ~root.ok
         THEN [w EXCEPT !.std = [known |-> TRUE, roots |-> {}],
                        !.panic = [kind |-> "IOFailure"]]
    ELSE [w EXCEPT !.std =
              [known |-> TRUE,
               roots |-> {e.name : e \in {x \in root.entries :
                              x.isDir /\ x.name \notin {"cmd", "internal"}}}]]

\* strings.Split(pkg, "/")[0], as bytes
firstSegment(pkg) ==
    LET b == Bytes(pkg)
        RECURSIVE firstSegmentFrom(_)
        firstSegmentFrom(i) ==
            IF i > Len(b) \/ b[i] = Code("/") THEN SubSeq(b, 1, i - 1)
            ELSE firstSegmentFrom(i + 1)
    IN  firstSegmentFrom(1)

\* Writer.isStdLib (part_000:250), the mapping being known
isStdLib(w, pkg) == \E r \in w.std.roots : Bytes(r) = firstSegment(pkg)

\* s < t for Go strings: the order of their bytes
RECURSIVE bytesLess(_, _)
bytesLess(x, y) ==
    IF y = <<>> THEN FALSE
    ELSE IF x = <<>> THEN TRUE
    ELSE IF Head(x) # Head(y) THEN Head(x) < Head(y)
    ELSE bytesLess(Tail(x), Tail(y))

\* the comparison of importDeps, by path alone
lessByPath(w, d0, d1) == bytesLess(Bytes(d0.pkgPath), Bytes(d1.pkgPath))

\* the comparison importDeps sorts with (part_000:223-234)
less(w, d0, d1) ==
    LET std0 == isStdLib(w, d0.pkgPath)
        std1 == isStdLib(w, d1.pkgPath)
    IN  IF std0 # std1 THEN std0
        ELSE bytesLess(Bytes(d0.pkgPath), Bytes(d1.pkgPath))

\* a deduplication that goes on to the next index when it has cut one off
RECURSIVE dedupSkip(_, _, _)
dedupSkip(ds, i, seen) ==
    IF i > Len(ds) THEN ds
    ELSE IF ds[i].pkgPath \in seen
         THEN dedupSkip(SubSeq([ds EXCEPT ![i] = ds[Len(ds)]], 1, Len(ds) - 1), i + 1, seen)
    ELSE dedupSkip(ds, i + 1, seen \cup {ds[i].pkgPath})

\* a deduplication that keeps, of two dependencies of one path, the later
RECURSIVE dedupKeepLater(_, _, _)
dedupKeepLater(ds, i, seen) ==
    LET kept == CHOOSE j \in 1..(i - 1) : ds[j].pkgPath = ds[i].pkgPath
    IN  IF i > Len(ds) THEN ds
        ELSE IF ds[i].pkgPath \in seen
             THEN dedupKeepLater(SubSeq([ds EXCEPT ![kept] = ds[i], ![i] = ds[Len(ds)]],
                                        1, Len(ds) - 1), i, seen)
        ELSE dedupKeepLater(ds, i + 1, seen \cup {ds[i].pkgPath})

\* the deduplication loop of importDeps (part_000:208-219): a dependency
\* whose path was seen is swapped with the last one and cut off
RECURSIVE dedup(_, _, _)
dedup(ds, i, seen) ==
    IF i > Len(ds) THEN ds
    ELSE IF ds[i].pkgPath \in seen
         THEN LET n == Len(ds)
                  swapped == [ds EXCEPT ![i] = ds[n], ![n] = ds[i]]
              IN  dedup(SubSeq(swapped, 1, n - 1), i, seen)
    ELSE dedup(ds, i + 1, seen \cup {ds[i].pkgPath})

\* sort.Slice: any arrangement of the list that is sorted by less
Arrangements(ds) ==
    {[i \in 1..Len(ds) |-> ds[f[i]]] :
        f \in {g \in [1..Len(ds) -> 1..Len(ds)] :
                  \A i, j \in 1..Len(ds) : i # j => g[i] # g[j]}}
sortSlice(w, ds) ==
    {q \in Arrangements(ds) :
        \A i, j \in 1..Len(q) : i < j => ~less(w, q[j], q[i])}

\* the loop of importDeps that writes the paths (part_000:236-245)
RECURSIVE importLines(_, _, _, _)
importLines(w, ds, i, lastStd) ==
    IF i > Len(ds) THEN w
    ELSE IF isStdLib(w, ds[i].pkgPath)
         THEN importLines(line(w, <<"\t", "\"", ds[i].pkgPath, "\"">>), ds, i + 1, TRUE)
    ELSE IF lastStd
         THEN importLines(line(line(w, <<>>), <<"\t", "\"", ds[i].pkgPath, "\"">>),
                          ds, i + 1, FALSE)
    ELSE importLines(line(w, <<"\t", "\"", ds[i].pkgPath, "\"">>), ds, i + 1, lastStd)

\* Writer.importDeps (part_000:207), after the deduplication: the results
\* it may have, one for each outcome of sort.Slice
importSorted(w, ds, root) ==
    IF Len(ds) = 0 THEN {[w |-> w, ds |-> ds]}
    ELSE LET \* sort.Slice compares, and so classifies, from two elements on
             w1 == IF Len(ds) >= 2 THEN ensureStdLibMapping(w, root) ELSE w
         IN  IF w1.panic # NoPanic THEN {[w |-> w1, ds |-> ds]}
             ELSE {LET w2 == ensureStdLibMapping(line(w1, <<"import (">>), root)
                       w3 == importLines(w2, q, 1, FALSE)
                   IN  [w |-> line(line(w3, <<")">>), <<>>), ds |-> q] :
                   q \in IF Len(ds) >= 2 THEN sortSlice(w1, ds) ELSE {ds}}

\* Writer.importDeps (part_000:207)
importDeps(w, ds, root) == importSorted(w, dedup(ds, 1, {}), root)

-----------------------------------------------------------------------------
(* The model a Package is given in: its Traces; the Hooks of a Trace; the   *)
(* Func of a Hook with its Params (Name, Type) and its Result: none, or    *)
(* one of kind "func" (with the Func fn), of kind "trace" (with the Name   *)
(* of the trace) or of kind "other", which the generator does not support. *)

\* Func.HasResult and Func.isFuncResult
FuncHasResult(fn) == Len(fn.Result) > 0
FuncIsFuncResult(fn) == fn.Result[1].kind = "func"

\* unwrapStruct (part_000:172): whether t is a named struct type
unwrapStruct(t) == t.kind = "named" /\ t.isStruct

\* Writer.typeString (part_000:881): the package name qualifies a type of
\* another package
RECURSIVE typeString(_)
typeString(t) ==
    IF t.kind = "pointer" THEN "*" \o typeString(t.elem)
    ELSE IF t.kind = "basic" THEN t.name
    ELSE IF t.hasPkg /\ t.pkgPath # OwnPath THEN t.pkgName \o "." \o t.name
    ELSE t.name

\* typeBasename (part_000:558), in runes: what follows the last "." of
\* types.Type.String, in which the path of the package qualifies
typeBasename(t) ==
    LET RECURSIVE typeStringFull(_)
        typeStringFull(x) ==
            IF x.kind = "pointer" THEN <<"*">> \o typeStringFull(x.elem)
            ELSE IF x.kind = "basic" THEN Runes(x.name)
            ELSE IF x.hasPkg THEN Runes(x.pkgPath) \o <<".">> \o Runes(x.name)
            ELSE Runes(x.name)
        \* rsplit: the last "." of rs is its i-th rune (0: there is none)
        lastDot(rs) ==
            IF \E k \in 1..Len(rs) : rs[k] = "."
            THEN CHOOSE k \in 1..Len(rs) :
                     rs[k] = "." /\ \A j \in (k + 1)..Len(rs) : rs[j] # "."
            ELSE 0
        basename(rs, i) ==
            IF i = 0 THEN rs
            ELSE IF i = Len(rs) THEN SubSeq(rs, 1, i - 1)
            ELSE SubSeq(rs, i + 1, Len(rs))
    IN  basename(typeStringFull(t), lastDot(typeStringFull(t)))

\* nameParam (part_000:530)
nameParam(p) ==
    IF p.Name = ""
    THEN Join(unexportedOf(<<identOf(typeBasename(p.Type))[1]>>))
    ELSE unexported(p.Name)

\* haveNames (part_000:871)
haveNames(params) ==
    \E i \in 1..Len(params) :
        Len(nameParam(params[i])) > 1 /\ ~isPredeclared(nameParam(params[i]))

\* flattenStruct with the fields that are not exported too
RECURSIVE flattenStructAll(_, _, _)
flattenStructAll(dst, fields, i) ==
    IF i > Len(fields) THEN dst
    ELSE flattenStructAll(Append(dst, [Name |-> IF Runes(fields[i].Name)
                                                   = typeBasename(fields[i].Type)
                                                THEN "" ELSE fields[i].Name,
                                       Type |-> fields[i].Type]), fields, i + 1)

\* flattenStruct (part_000:566): the exported fields from the i-th on
RECURSIVE flattenStruct(_, _, _)
flattenStruct(dst, fields, i) ==
    IF i > Len(fields) THEN dst
    ELSE IF ~fields[i].Exported THEN flattenStruct(dst, fields, i + 1)
    ELSE flattenStruct(Append(dst, [Name |-> IF Runes(fields[i].Name)
                                                = typeBasename(fields[i].Type)
                                             THEN "" ELSE fields[i].Name,
                                    Type |-> fields[i].Type]), fields, i + 1)

\* flattenParams (part_000:546)
flattenParams(params) ==
    LET RECURSIVE flattenFrom(_, _)
        flattenFrom(dst, i) ==
            IF i > Len(params) THEN dst
            ELSE IF unwrapStruct(params[i].Type)
                 THEN flattenFrom(flattenStruct(dst, params[i].Type.fields, 1), i + 1)
            ELSE flattenFrom(Append(dst, params[i]), i + 1)
    IN  flattenFrom(<<>>, 1)

\* Writer.funcImports (part_000:181)
RECURSIVE funcImports(_, _)
funcImports(dst, fn) ==
    LET RECURSIVE fieldImports(_, _, _)
        fieldImports(d, fields, i) ==
            IF i > Len(fields) THEN d
            ELSE fieldImports(IF fields[i].Exported THEN typeImports(d, fields[i].Type)
                              ELSE d, fields, i + 1)
        RECURSIVE paramImports(_, _)
        paramImports(d, i) ==
            IF i > Len(fn.Params) THEN d
            ELSE LET d1 == typeImports(d, fn.Params[i].Type)
                     d2 == IF unwrapStruct(fn.Params[i].Type)
                           THEN fieldImports(d1, fn.Params[i].Type.fields, 1) ELSE d1
                 IN  paramImports(d2, i + 1)
        d0 == paramImports(dst, 1)
    IN  IF FuncHasResult(fn) /\ fn.Result[1].kind = "func"
        THEN funcImports(d0, fn.Result[1].fn) ELSE d0

\* Writer.traceImports (part_000:200)
traceImports(dst, t) ==
    LET RECURSIVE hookImports(_, _)
        hookImports(d, i) ==
            IF i > Len(t.Hooks) THEN d
            ELSE hookImports(funcImports(d, t.Hooks[i].Func), i + 1)
    IN  hookImports(dst, 1)

-----------------------------------------------------------------------------
(* The Writer's calls of its allocator and of its emitter.  A panic unwinds *)
(* the run: whatever would follow it in the code leaves the Writer alone.  *)

\* panic("unexpected result type"), panic("unknown result type")
unsupported(w, what) ==
    IF w.panic # NoPanic THEN w
    ELSE [w EXCEPT !.panic = [kind |-> "UnsupportedShape", what |-> what]]

declareIn(w, name, site) ==
    LET declared(r) == [w |-> [w EXCEPT !.scope = r.scope], v |-> r.v]
    IN  IF w.panic # NoPanic THEN [w |-> w, v |-> name]
        ELSE declared(declare(w.scope, w.pkg, name, site))

mustDeclareIn(w, name, site) ==
    LET declared(r) == [w EXCEPT !.scope = r.scope, !.panic = r.panic]
    IN  IF w.panic # NoPanic THEN w ELSE declared(mustDeclare(w.scope, name, site))

captureIn(w, names, site) ==
    LET captured(r) == [w EXCEPT !.scope = r.scope, !.panic = r.panic]
    IN  IF w.panic # NoPanic THEN w ELSE captured(capture(w.scope, names, site))

\* Writer.newScope (part_000:896): before fn is called, and after it has
\* returned (the scope stays when fn panics)
scopeIn(w) == IF w.panic # NoPanic THEN w ELSE [w EXCEPT !.scope = Append(@, EmptyScope)]
\* (a newScope whose scope stays on the stack when fn has returned)
scopeOutKeep(w) == w
scopeOut(w) ==
    IF w.panic # NoPanic THEN w ELSE [w EXCEPT !.scope = SubSeq(@, 1, Len(@) - 1)]

\* Writer.block (part_000:890): before fn is called, and after it has returned
blockIn(w) == IF w.panic # NoPanic THEN w ELSE scopeIn([w EXCEPT !.depth = @ + 1])
blockOut(w) == IF w.panic # NoPanic THEN w ELSE [scopeOut(w) EXCEPT !.depth = @ - 1]

\* the end of line written past code (part_000:394-395, 432)
newline(w) == IF w.panic # NoPanic THEN w ELSE [WriteByte(w, "\n") EXCEPT !.atEOL = TRUE]

-----------------------------------------------------------------------------
(* Code synthesizer: the text Write emits for a Package.  Every function   *)
(* of the generator is given by the steps it takes on the Writer, in their *)
(* order: the calls of line and code, of newScope and block, of declare,   *)
(* mustDeclare and capture, and its panics.  A name that declare returns   *)
(* is referred to in later steps by the key of the variable of the source  *)
(* that holds it ("@t" for t, "@res1" for res at the second stage).        *)

\* flags (part_000:775-784)
zeroFlags == 0
docs == 1
has(f, x) == (f % 2 = 1) /\ (x = 1)

\* a call of the Writer at a line of the source
Step(op, args, site) == [op |-> op, args |-> args, site |-> site]
\* (args are the pieces written; a piece is given by its parts, each a text
\* or the key of a name, where the source concatenates them)
lineStep(args) == Step("line", [i \in 1..Len(args) |-> <<args[i]>>], 902)
codeStep(args) == Step("code", [i \in 1..Len(args) |-> <<args[i]>>], 908)
\* name := w.declare(...): the variable is named by key
declareStep(name, key, site) == Step("declare", <<name, key>>, site)

\* the keys of n variables
keys(prefix, n) == [i \in 1..n |-> prefix \o ToString(i)]

\* the steps of a loop: those of its iterations, one after the other
RECURSIVE flatten(_)
flatten(ss) == IF ss = <<>> THEN <<>> ELSE Head(ss) \o flatten(Tail(ss))

\* Writer.call (part_000:282)
writeCall(args) ==
    <<codeStep(<<"(">>)>>
    \o flatten([i \in 1..Len(args) |->
                   (IF i > 1 THEN <<codeStep(<<", ">>)>> ELSE <<>>)
                   \o <<codeStep(<<args[i]>>)>>])
    \o <<lineStep(<<")">>)>>

\* Writer.funcParam (part_000:759)
funcParam(p, key) ==
    <<declareStep(nameParam(p), key, 760), codeStep(<<key, " ">>),
      codeStep(<<typeString(p.Type)>>)>>

\* Writer.funcParams (part_000:747), and the same calls in hook
\* (part_000:462-469)
funcParams(params, names) ==
    <<codeStep(<<"(">>)>>
    \o flatten([i \in 1..Len(params) |->
                   (IF i > 1 THEN <<codeStep(<<", ">>)>> ELSE <<>>)
                   \o funcParam(params[i], names[i])])
    \o <<codeStep(<<")">>)>>

\* Writer.funcParamSign (part_000:766)
funcParamSign(p) ==
    LET sign(name) == IF Len(name) = 1 \/ isPredeclared(name) THEN "_" ELSE name
    IN  <<codeStep(<<sign(nameParam(p)), " ">>), codeStep(<<typeString(p.Type)>>)>>

\* the parameters of a signature (part_000:806-815, 835-844)
signParams(params, flags, named) ==
    flatten([i \in 1..Len(params) |->
                (IF i > 1 THEN <<codeStep(<<", ">>)>> ELSE <<>>)
                \o (IF has(flags, docs) /\ named THEN funcParamSign(params[i])
                    ELSE <<codeStep(<<typeString(params[i].Type)>>)>>)])

\* Writer.funcResultsFlags (part_000:786) and funcSignatureFlags (part_000:803)
RECURSIVE funcResultsFlags(_, _)
RECURSIVE funcSignatureFlags(_, _)
funcResultsFlags(fn, flags) ==
    IF ~FuncHasResult(fn) THEN <<>>
    ELSE IF fn.Result[1].kind = "func" THEN funcSignatureFlags(fn.Result[1].fn, flags)
    ELSE IF fn.Result[1].kind = "trace" THEN <<codeStep(<<fn.Result[1].Name, " ">>)>>
    ELSE <<Step("panic", <<"unexpected result type">>, 794)>>
funcSignatureFlags(fn, flags) ==
    <<codeStep(<<"func(">>)>>
    \o signParams(fn.Params, flags, haveNames(fn.Params))
    \o <<codeStep(<<")">>)>>
    \o (IF FuncHasResult(fn) /\ FuncIsFuncResult(fn) THEN <<codeStep(<<" ">>)>> ELSE <<>>)
    \o funcResultsFlags(fn, flags)

\* Writer.shortcutFuncResultsFlags (part_000:854) and shortcutFuncSignFlags
\* (part_000:829)
RECURSIVE shortcutFuncResultsFlags(_, _)
RECURSIVE shortcutFuncSignFlags(_, _)
shortcutFuncResultsFlags(fn, flags) ==
    IF ~FuncHasResult(fn) THEN <<>>
    ELSE IF fn.Result[1].kind = "func" THEN shortcutFuncSignFlags(fn.Result[1].fn, flags)
    ELSE IF fn.Result[1].kind = "trace" THEN <<codeStep(<<fn.Result[1].Name, " ">>)>>
    ELSE <<Step("panic", <<"unexpected result type">>, 862)>>
shortcutFuncSignFlags(fn, flags) ==
    <<codeStep(<<"func(">>)>>
    \o signParams(flattenParams(fn.Params), flags, haveNames(flattenParams(fn.Params)))
    \o <<codeStep(<<")">>)>>
    \o (IF FuncHasResult(fn) /\ FuncIsFuncResult(fn) THEN <<codeStep(<<" ">>)>> ELSE <<>>)
    \o shortcutFuncResultsFlags(fn, flags)

\* Writer.zeroReturn (part_000:726)
RECURSIVE genZeroReturn(_)
genZeroReturn(fn) ==
    IF ~FuncHasResult(fn) THEN <<lineStep(<<"return">>)>>
    ELSE <<codeStep(<<"return ">>)>>
         \o (IF fn.Result[1].kind = "func"
             THEN funcSignatureFlags(fn.Result[1].fn, zeroFlags)
                  \o <<lineStep(<<" {">>), Step("block", <<>>, 736)>>
                  \o genZeroReturn(fn.Result[1].fn)
                  \o <<Step("blockEnd", <<>>, 738), lineStep(<<"}">>)>>
             ELSE IF fn.Result[1].kind = "trace"
             THEN <<lineStep(<<fn.Result[1].Name, "{}">>)>>
             ELSE <<Step("panic", <<"unexpected result type">>, 743)>>)

\* Writer.options (part_000:424)
genOptions(trace) ==
    LET options(u, n) ==
            <<Step("newScope", <<>>, 425),
              lineStep(<<"// " \o u \o "ComposeOptions is a holder of options">>),
              lineStep(<<"type " \o u \o "ComposeOptions struct {">>),
              Step("block", <<>>, 428),
              lineStep(<<"panicCallback func(e interface{})">>),
              Step("blockEnd", <<>>, 430),
              lineStep(<<"}">>),
              Step("byte", <<>>, 432),
              Step("newScopeEnd", <<>>, 433),
              Step("newScope", <<>>, 434),
              lineStep(<<"// " \o n \o "Option specified " \o n \o " compose option">>),
              lineStep(<<"type " \o n \o "ComposeOption func(o *" \o u
                         \o "ComposeOptions)">>),
              Step("byte", <<>>, 437),
              Step("newScopeEnd", <<>>, 438),
              Step("newScope", <<>>, 439),
              lineStep(<<"// With" \o n \o "PanicCallback specified behavior on panic">>),
              lineStep(<<"func With" \o n \o "PanicCallback(cb func(e interface{})) "
                         \o n \o "ComposeOption {">>),
              Step("block", <<>>, 442),
              lineStep(<<"return func(o *" \o u \o "ComposeOptions) {">>),
              Step("block", <<>>, 444),
              lineStep(<<"o.panicCallback = cb">>),
              Step("blockEnd", <<>>, 446),
              lineStep(<<"}">>),
              Step("blockEnd", <<>>, 448),
              lineStep(<<"}">>),
              Step("byte", <<>>, 450),
              Step("newScopeEnd", <<>>, 451)>>
    IN  options(unexported(trace.Name), trace.Name)

\* Writer.isZero (part_000:293)
genIsZero(trace) ==
    <<Step("newScope", <<>>, 294), Step("func", <<"isZero">>, 294),
      declareStep("t", "@t", 295),
      lineStep(<<"// isZero checks whether ", "@t", " is empty">>),
      lineStep(<<"func (", "@t", " ", trace.Name, ") isZero() bool {">>),
      Step("block", <<>>, 298)>>
    \o flatten([i \in 1..Len(trace.Hooks) |->
                   <<lineStep(<<"if ", "@t", ".", trace.Hooks[i].Name, " != nil {">>),
                     Step("block", <<>>, 301),
                     lineStep(<<"return false">>),
                     Step("blockEnd", <<>>, 303),
                     lineStep(<<"}">>)>>])
    \o <<lineStep(<<"return true">>),
         Step("blockEnd", <<>>, 307),
         lineStep(<<"}">>),
         Step("funcEnd", <<>>, 309), Step("newScopeEnd", <<>>, 309)>>

\* Writer.composeHookCall (part_000:358) at stage k: the closure over the
\* hooks h1 and h2, with the deferred recover (370-382), the results
\* (388-396), the two guarded calls (397-407) and what is returned (408-418)
RECURSIVE genComposeHookCall(_, _, _, _)
genComposeHookCall(fn, h1, h2, k) ==
    LET args == keys("@a" \o ToString(k) \o ".", Len(fn.Params))
        r1 == "@r1." \o ToString(k)
        r2 == "@r2." \o ToString(k)
        guarded(h, r) ==
            <<Step("line", <<<<"if ", h, " != nil {">>>>, 398), Step("block", <<>>, 399)>>
            \o (IF FuncHasResult(fn) THEN <<codeStep(<<r, " = ">>)>> ELSE <<>>)
            \o <<codeStep(<<h>>)>>
            \o writeCall(args)
            \o <<Step("blockEnd", <<>>, 405), lineStep(<<"}">>)>>
    IN  <<Step("newScope", <<>>, 359),
          Step("capture", <<h1, h2>>, 360),
          Step("block", <<>>, 361),
          Step("capture", <<h1, h2>>, 362),
          Step("func", <<"compose">>, 363),
          codeStep(<<"func">>)>>
        \o funcParams(fn.Params, args)
        \o (IF FuncHasResult(fn) THEN <<codeStep(<<" ">>)>> ELSE <<>>)
        \o funcResultsFlags(fn, zeroFlags)
        \o <<lineStep(<<" {">>),
             lineStep(<<"if options.panicCallback != nil {">>),
             Step("block", <<>>, 371),
             lineStep(<<"defer func() {">>),
             Step("block", <<>>, 373),
             lineStep(<<"if e := recover(); e != nil {">>),
             Step("block", <<>>, 375),
             lineStep(<<"options.panicCallback(e)">>),
             Step("blockEnd", <<>>, 377),
             lineStep(<<"}">>),
             Step("blockEnd", <<>>, 379),
             lineStep(<<"}()">>),
             Step("blockEnd", <<>>, 381),
             lineStep(<<"}">>)>>
        \o (IF FuncHasResult(fn)
            THEN <<declareStep("r", r1, 389), declareStep("r", r2, 390),
                   Step("code", <<<<"var ", r1, ", ", r2, " ">>>>, 392)>>
                 \o funcResultsFlags(fn, zeroFlags)
                 \o <<Step("newline", <<>>, 394)>>
            ELSE <<>>)
        \o guarded(h1, r1)
        \o guarded(h2, r2)
        \o (IF ~FuncHasResult(fn) THEN <<>>
            ELSE <<codeStep(<<"return ">>)>>
                 \o (IF fn.Result[1].kind = "func"
                     THEN genComposeHookCall(fn.Result[1].fn, r1, r2, k + 1)
                     ELSE IF fn.Result[1].kind = "trace"
                     THEN <<lineStep(<<r1, ".Compose(", r2, ")">>)>>
                     ELSE <<Step("panic", <<"unknown result type">>, 416)>>))
        \o <<Step("funcEnd", <<>>, 419),
             Step("blockEnd", <<>>, 419),
             lineStep(<<"}">>),
             Step("newScopeEnd", <<>>, 421)>>

\* Writer.composeHook (part_000:345)
composeHook(hook, t1, t2, dst) ==
    <<lineStep(<<"{">>),
      Step("block", <<>>, 347),
      Step("func", <<"block">>, 347),
      declareStep("h1", "@h1", 348),
      declareStep("h2", "@h2", 349),
      lineStep(<<"@h1", " := ", t1, ".", hook.Name>>),
      lineStep(<<"@h2", " := ", t2, ".", hook.Name>>),
      Step("code", <<dst, <<" = ">>>>, 352)>>
    \o genComposeHookCall(hook.Func, "@h1", "@h2", 0)
    \o <<Step("funcEnd", <<>>, 354),
         Step("blockEnd", <<>>, 354),
         lineStep(<<"}">>)>>

\* Writer.compose (part_000:312)
genCompose(trace) ==
    <<Step("newScope", <<>>, 313), Step("func", <<"Compose">>, 313),
      declareStep("t", "@t", 314),
      declareStep("x", "@x", 315),
      declareStep("ret", "@ret", 316),
      lineStep(<<"// Compose returns a new ", trace.Name,
                 " which has functional fields composed both from ",
                 "@t", " and ", "@x", ".">>),
      codeStep(<<"func (", "@t", " *", trace.Name, ") Compose(", "@x", " *", trace.Name,
                 ", opts ..." \o trace.Name \o "ComposeOption) ">>),
      lineStep(<<"*", trace.Name, " {">>),
      Step("block", <<>>, 322),
      lineStep(<<"var ", "@ret", " ", trace.Name, "">>)>>
    \o (IF Len(trace.Hooks) > 0
        THEN <<lineStep(<<"options := ", unexported(trace.Name), "ComposeOptions{}">>),
               lineStep(<<"for _, opt := range opts {">>),
               Step("block", <<>>, 327),
               lineStep(<<"if opt != nil {">>),
               Step("block", <<>>, 329),
               lineStep(<<"opt(&options)">>),
               Step("blockEnd", <<>>, 331),
               lineStep(<<"}">>),
               Step("blockEnd", <<>>, 333),
               lineStep(<<"}">>)>>
        ELSE <<>>)
    \o flatten([i \in 1..Len(trace.Hooks) |->
                   composeHook(trace.Hooks[i], "@t", "@x",
                               <<"@ret", ".", trace.Hooks[i].Name>>)])
    \o <<lineStep(<<"return &", "@ret">>),
         Step("blockEnd", <<>>, 340),
         lineStep(<<"}">>),
         Step("funcEnd", <<>>, 342), Step("newScopeEnd", <<>>, 342)>>

\* Writer.hookFuncCall (part_000:489) at stage k: name is called with args
RECURSIVE genHookFuncCall(_, _, _, _)
genHookFuncCall(fn, name, args, k) ==
    LET res == "@res" \o ToString(k)
        next == keys("@a" \o ToString(k + 1) \o ".",
                     IF FuncHasResult(fn) /\ fn.Result[1].kind = "func"
                     THEN Len(fn.Result[1].fn.Params) ELSE 0)
        closure(r) ==
            <<Step("newScope", <<>>, 512), Step("func", <<"forward">>, 512),
              codeStep(<<"return func">>)>>
            \o funcParams(r.Params, next)
            \o <<codeStep(<<" ">>)>>
            \o funcResultsFlags(r, zeroFlags)
            \o <<lineStep(<<" {">>), Step("block", <<>>, 518)>>
            \o genHookFuncCall(r, res, next, k + 1)
            \o <<Step("blockEnd", <<>>, 520), lineStep(<<"}">>),
                 Step("funcEnd", <<>>, 522), Step("newScopeEnd", <<>>, 522)>>
    IN  IF ~FuncHasResult(fn) THEN <<codeStep(<<name>>)>> \o writeCall(args)
        ELSE <<declareStep("res", res, 492), codeStep(<<res, " := ">>), codeStep(<<name>>)>>
             \o writeCall(args)
             \o (IF fn.Result[1].kind = "func"
                 THEN <<lineStep(<<"if ", res, " == nil {">>), Step("block", <<>>, 506)>>
                      \o genZeroReturn(fn)
                      \o <<Step("blockEnd", <<>>, 508), lineStep(<<"}">>)>>
                      \o (IF FuncHasResult(fn.Result[1].fn) THEN closure(fn.Result[1].fn)
                          ELSE <<lineStep(<<"return ", res>>)>>)
                 ELSE <<lineStep(<<"return ", res>>)>>)

\* Writer.hook (part_000:454)
genHook(trace, hook) ==
    <<Step("newScope", <<>>, 455), Step("func", <<"forward">>, 455),
      declareStep("t", "@t", 456),
      declareStep("fn", "@fn", 457),
      codeStep(<<"func (", "@t", " *", trace.Name, ") ", unexported(hook.Name)>>)>>
    \o funcParams(hook.Func.Params, keys("@a0.", Len(hook.Func.Params)))
    \o (IF FuncHasResult(hook.Func) THEN <<codeStep(<<" ">>)>> ELSE <<>>)
    \o funcResultsFlags(hook.Func, docs)
    \o <<lineStep(<<" {">>),
         Step("block", <<>>, 475),
         lineStep(<<"@fn", " := ", "@t", ".", hook.Name>>),
         lineStep(<<"if ", "@fn", " == nil {">>),
         Step("block", <<>>, 478)>>
    \o genZeroReturn(hook.Func)
    \o <<Step("blockEnd", <<>>, 480), lineStep(<<"}">>)>>
    \o genHookFuncCall(hook.Func, "@fn", keys("@a0.", Len(hook.Func.Params)), 0)
    \o <<Step("blockEnd", <<>>, 484),
         lineStep(<<"}">>),
         Step("funcEnd", <<>>, 486), Step("newScopeEnd", <<>>, 486)>>

\* Writer.declareParams (part_000:538): the names are held by the variables names
declareParams(src, names) ==
    [i \in 1..Len(src) |-> declareStep(nameParam(src[i]), names[i], 541)]

\* Writer.constructStruct (part_000:604): the steps, and the names left over
\* (rest); the struct is held by the variable p.  To take a name of an empty
\* list (vars[0], part_000:613) is a panic of the Go runtime.
constructStruct(n, names, p) ==
    LET RECURSIVE constructFields(_, _)
        constructFields(i, vs) ==
            LET assigned(r) ==
                    [steps |-> <<Step("line", <<<<p>>, <<".">>, <<n.fields[i].Name>>,
                                                <<" = ">>, <<Head(vs)>>>>, 615)>>
                               \o r.steps,
                     rest |-> r.rest]
            IN  IF i > Len(n.fields) THEN [steps |-> <<>>, rest |-> vs]
                ELSE IF ~n.fields[i].Exported THEN constructFields(i + 1, vs)
                ELSE IF vs = <<>>
                     THEN [steps |-> <<Step("panic", <<"index out of range">>, 613)>>,
                           rest |-> vs]
                ELSE assigned(constructFields(i + 1, Tail(vs)))
        constructed(r) ==
            [steps |-> <<declareStep("p", p, 605),
                         lineStep(<<"var ", p, " ", typeString(n)>>)>> \o r.steps,
             rest |-> r.rest]
    IN  constructed(constructFields(1, names))

\* Writer.constructParams (part_000:588) from the i-th parameter on, at stage
\* k: the steps, the arguments (res) and the names left over (rest)
RECURSIVE constructParams(_, _, _, _)
constructParams(params, i, names, k) ==
    LET p == "@p" \o ToString(k) \o "." \o ToString(i)
        passed(r) == [r EXCEPT !.res = <<Head(names)>> \o @]
        rebuilt(c, r) == [r EXCEPT !.steps = c.steps \o @, !.res = <<p>> \o @]
        struct(c) == rebuilt(c, constructParams(params, i + 1, c.rest, k))
    IN  IF i > Len(params) THEN [steps |-> <<>>, res |-> <<>>, rest |-> names]
        ELSE IF unwrapStruct(params[i].Type)
             THEN struct(constructStruct(params[i].Type, names, p))
        ELSE IF names = <<>>
             THEN [steps |-> <<Step("panic", <<"index out of range">>, 597)>>,
                   res |-> <<>>, rest |-> names]
        ELSE passed(constructParams(params, i + 1, Tail(names), k))

\* the block of hookShortcut (part_000:646-673) and of hookFuncShortcut
\* (part_000:697-721) at stage k: the names are captured, the arguments
\* constructed, callee called and its result returned
RECURSIVE hookFuncShortcut(_, _, _)
shortcutBlock(fn, names, callee, k, captureSite, resSite) ==
    LET res == "@res" \o ToString(k)
        called(c) ==
            c.steps
            \o (IF FuncHasResult(fn)
                THEN <<declareStep("res", res, resSite), codeStep(<<res, " := ">>)>>
                ELSE <<>>)
            \o <<Step("code", callee, resSite + 3)>>
            \o writeCall(c.res)
    IN  [i \in 1..Len(names) |-> Step("capture", <<names[i]>>, captureSite)]
        \o called(constructParams(fn.Params, 1, names, k))
        \o (IF ~FuncHasResult(fn) THEN <<>>
            ELSE <<codeStep(<<"return ">>)>>
                 \o (IF fn.Result[1].kind = "func"
                     THEN hookFuncShortcut(fn.Result[1].fn, res, k + 1)
                     ELSE IF fn.Result[1].kind = "trace" THEN <<lineStep(<<res>>)>>
                     ELSE <<Step("panic", <<"unexpected result type">>, resSite + 17)>>))

\* Writer.hookFuncShortcut (part_000:678) at stage k
hookFuncShortcut(fn, name, k) ==
    LET shortcut(params, names) ==
            <<Step("newScope", <<>>, 679), Step("func", <<"shortcut">>, 679),
              codeStep(<<"func(">>)>>
            \o declareParams(params, names)
            \o flatten([i \in 1..Len(params) |->
                           (IF i > 1 THEN <<codeStep(<<", ">>)>> ELSE <<>>)
                           \o <<codeStep(<<names[i], " ", typeString(params[i].Type)>>)>>])
            \o <<codeStep(<<")">>)>>
            \o (IF FuncHasResult(fn) THEN <<codeStep(<<" ">>)>> ELSE <<>>)
            \o shortcutFuncResultsFlags(fn, zeroFlags)
            \o <<lineStep(<<" {">>), Step("block", <<>>, 697)>>
            \o shortcutBlock(fn, names, <<<<name>>>>, k, 699, 704)
            \o <<Step("blockEnd", <<>>, 721), lineStep(<<"}">>),
                 Step("funcEnd", <<>>, 723), Step("newScopeEnd", <<>>, 723)>>
    IN  shortcut(flattenParams(fn.Params),
                 keys("@n" \o ToString(k) \o ".", Len(flattenParams(fn.Params))))

\* Writer.hookShortcut (part_000:620)
hookShortcut(trace, hook) ==
    LET shortcut(name, params, names) ==
            <<Step("mustDeclare", <<name>>, 623),
              Step("newScope", <<>>, 625), Step("func", <<"shortcut">>, 625),
              declareStep("t", "@t", 626),
              codeStep(<<"func ", name>>),
              codeStep(<<"(">>),
              codeStep(<<"@t", " *", trace.Name>>)>>
            \o declareParams(params, names)
            \o flatten([i \in 1..Len(params) |->
                           <<codeStep(<<", ">>),
                             codeStep(<<names[i], " ", typeString(params[i].Type)>>)>>])
            \o <<codeStep(<<")">>)>>
            \o (IF FuncHasResult(hook.Func) THEN <<codeStep(<<" ">>)>> ELSE <<>>)
            \o shortcutFuncResultsFlags(hook.Func, docs)
            \o <<lineStep(<<" {">>), Step("block", <<>>, 646)>>
            \o shortcutBlock(hook.Func, names,
                             <<<<"@t">>, <<".">>, <<unexported(hook.Name)>>>>, 0, 648, 653)
            \o <<Step("blockEnd", <<>>, 673), lineStep(<<"}">>),
                 Step("funcEnd", <<>>, 675), Step("newScopeEnd", <<>>, 675)>>
    IN  shortcut(Join(exportedOf(tempNameOf(Runes(trace.Name), Runes(hook.Name)))),
                 flattenParams(hook.Func.Params),
                 keys("@n0.", Len(flattenParams(hook.Func.Params))))

-----------------------------------------------------------------------------
(* The steps taken on the Writer.  With the Writer w goes env, the names   *)
(* the variables of the source hold, and what tells the emitted text       *)
(* apart: the sections written, the functions and blocks of the text that  *)
(* are open (fns) and the identifiers each of them introduces (idents).    *)

NoEnv == [k \in {} |-> ""]

Walk(w) == [w |-> w, env |-> NoEnv, fns |-> <<>>, nfns |-> 0, idents |-> <<>>,
            sections |-> <<>>]

\* one step (a panic unwinds the run: no step is taken after it)
step(x, s) ==
    LET name(k) == IF k \in DOMAIN x.env THEN x.env[k] ELSE k
        text(piece) == Join([j \in 1..Len(piece) |-> name(piece[j])])
        pieces == [i \in 1..Len(s.args) |-> text(s.args[i])]
        declared(d) ==
            [x EXCEPT !.w = d.w,
                      !.env = [k \in DOMAIN x.env \cup {s.args[2]} |->
                                  IF k = s.args[2] THEN d.v ELSE x.env[k]],
                      !.idents = Append(@, [fn |-> x.fns[Len(x.fns)].id,
                                            kind |-> x.fns[Len(x.fns)].kind,
                                            name |-> d.v, site |-> s.site])]
    IN  CASE s.op = "line" -> [x EXCEPT !.w = line(x.w, pieces)]
          [] s.op = "code" -> [x EXCEPT !.w = code(x.w, pieces)]
          [] s.op = "byte" -> [x EXCEPT !.w = WriteByte(x.w, "\n")]
          [] s.op = "newline" -> [x EXCEPT !.w = newline(x.w)]
          [] s.op = "newScope" -> [x EXCEPT !.w = scopeIn(x.w)]
          [] s.op = "newScopeEnd" -> [x EXCEPT !.w = scopeOut(x.w)]
          [] s.op = "block" -> [x EXCEPT !.w = blockIn(x.w)]
          [] s.op = "blockEnd" -> [x EXCEPT !.w = blockOut(x.w)]
          [] s.op = "declare" -> declared(declareIn(x.w, s.args[1], s.site))
          [] s.op = "mustDeclare" ->
                 [x EXCEPT !.w = mustDeclareIn(x.w, s.args[1], s.site)]
          [] s.op = "capture" ->
                 [x EXCEPT !.w = captureIn(x.w, [i \in 1..Len(s.args) |-> name(s.args[i])],
                                           s.site)]
          [] s.op = "panic" -> [x EXCEPT !.w = unsupported(x.w, s.args[1])]
          [] s.op = "func" ->
                 [x EXCEPT !.fns = Append(@, [id |-> x.nfns + 1, kind |-> s.args[1]]),
                           !.nfns = @ + 1]
          [] s.op = "funcEnd" -> [x EXCEPT !.fns = SubSeq(@, 1, Len(@) - 1)]
          [] s.op = "section" -> [x EXCEPT !.sections = Append(@, s.args)]

\* the steps lo..hi of prog, in order
RECURSIVE exec(_, _, _, _)
exec(x, prog, lo, hi) ==
    IF x.w.panic # NoPanic \/ lo > hi THEN x
    ELSE IF lo = hi THEN step(x, prog[lo])
    ELSE exec(exec(x, prog, lo, (lo + hi) \div 2), prog, (lo + hi) \div 2 + 1, hi)

\* Writer.init (part_000:81): once, the buffer is made and the list of scopes
init(w, done) == IF done THEN w ELSE [w EXCEPT !.bw = EmptyBuf, !.scope = <<>>]

\* a body of Write that has the shortcut of a hook follow its forwarder
writeBodyInterleaved(p) ==
    <<Step("newScope", <<>>, 60)>>
    \o flatten([i \in 1..Len(p.Traces) |->
          <<Step("section", <<"options", p.Traces[i].Name, "">>, 62)>>
          \o genOptions(p.Traces[i])
          \o <<Step("section", <<"compose", p.Traces[i].Name, "">>, 63)>>
          \o genCompose(p.Traces[i])
          \o (IF p.Traces[i].Nested
              THEN <<Step("section", <<"isZero", p.Traces[i].Name, "">>, 65)>>
                   \o genIsZero(p.Traces[i])
              ELSE <<>>)
          \o flatten([j \in 1..Len(p.Traces[i].Hooks) |->
                <<Step("section", <<"hook", p.Traces[i].Name,
                                    p.Traces[i].Hooks[j].Name>>, 68)>>
                \o genHook(p.Traces[i], p.Traces[i].Hooks[j])
                \o <<Step("section", <<"shortcut", p.Traces[i].Name,
                                       p.Traces[i].Hooks[j].Name>>, 73)>>
                \o hookShortcut(p.Traces[i], p.Traces[i].Hooks[j])])])
    \o <<Step("newScopeEnd", <<>>, 76)>>

\* the body of Write (part_000:60-76): for each trace its options, Compose,
\* isZero and hooks, then the shortcuts of every trace
writeBody(p) ==
    <<Step("newScope", <<>>, 60)>>
    \o flatten([i \in 1..Len(p.Traces) |->
          <<Step("section", <<"options", p.Traces[i].Name, "">>, 62)>>
          \o genOptions(p.Traces[i])
          \o <<Step("section", <<"compose", p.Traces[i].Name, "">>, 63)>>
          \o genCompose(p.Traces[i])
          \o (IF p.Traces[i].Nested
              THEN <<Step("section", <<"isZero", p.Traces[i].Name, "">>, 65)>>
                   \o genIsZero(p.Traces[i])
              ELSE <<>>)
          \o flatten([j \in 1..Len(p.Traces[i].Hooks) |->
                <<Step("section", <<"hook", p.Traces[i].Name,
                                    p.Traces[i].Hooks[j].Name>>, 68)>>
                \o genHook(p.Traces[i], p.Traces[i].Hooks[j])])])
    \o flatten([i \in 1..Len(p.Traces) |->
          flatten([j \in 1..Len(p.Traces[i].Hooks) |->
                <<Step("section", <<"shortcut", p.Traces[i].Name,
                                    p.Traces[i].Hooks[j].Name>>, 73)>>
                \o hookShortcut(p.Traces[i], p.Traces[i].Hooks[j])])])
    \o <<Step("newScopeEnd", <<>>, 76)>>

\* Writer.Write (part_000:38): what it may leave, one for each outcome of
\* sort.Slice in importDeps.  The buffer is flushed (part_000:78) when no
\* call has panicked.
Write(w, done, p, root) ==
    LET RECURSIVE constraintLines(_, _)
        constraintLines(x, i) ==
            IF i > Len(p.BuildConstraints) THEN x
            ELSE constraintLines(line(IF i = 1 THEN line(x, <<>>) ELSE x,
                                      <<p.BuildConstraints[i]>>), i + 1)
        RECURSIVE packageImports(_, _)
        packageImports(dst, i) ==
            IF i > Len(p.Traces) THEN dst
            ELSE packageImports(traceImports(dst, p.Traces[i]), i + 1)
        flushed(x) == IF x.w.panic # NoPanic THEN x ELSE [x EXCEPT !.w = Flush(x.w)]
        written(x, prog) == flushed(exec(x, prog, 1, Len(prog)))
        header(x) ==
            line(line(line(constraintLines(
                line(x, <<"// Code generated by gtrace. DO NOT EDIT.">>), 1),
                <<>>), <<"package ", p.Name>>), <<>>)
    IN  {written(Walk(r.w), writeBody(p)) :
            r \in importDeps(header(init([w EXCEPT !.pkg = p.Scope], done)),
                             packageImports(<<>>, 1), root)}

-----------------------------------------------------------------------------
(* The Packages Write is run on.  A named type whose underlying type is a  *)
(* struct has isStruct and its fields (Name, Type, Exported) in order.     *)

Packages ==
    LET Package(name, constraints, symbols, traces) ==
            [Name |-> name, BuildConstraints |-> constraints, Scope |-> symbols,
             Traces |-> traces]
        Trace(name, nested, hooks) == [Name |-> name, Nested |-> nested, Hooks |-> hooks]
        Hook(name, fn) == [Name |-> name, Func |-> fn]
        Func(params, result) == [Params |-> params, Result |-> result]
        Param(name, type) == [Name |-> name, Type |-> type]
        Field(name, type, isExported) ==
            [Name |-> name, Type |-> type, Exported |-> isExported]
        Struct(name, fields) ==
            [Named(OwnPath, "own", name) EXCEPT !.isStruct = TRUE, !.fields = fields]
        Context == Named("context", "context", "Context")
        StartInfo ==
            Struct("StartInfo",
                   <<Field("Context", Context, TRUE), Field("Addr", Basic("string"), TRUE),
                     Field("id", Basic("int"), FALSE)>>)
        DoneInfo == Struct("DoneInfo", <<Field("Error", Universe("error"), TRUE)>>)
        \* func(StartInfo) func(DoneInfo)
        startFunc ==
            Func(<<Param("", StartInfo)>>,
                 <<[kind |-> "func", fn |-> Func(<<Param("", DoneInfo)>>, <<>>)]>>)
        \* func(ctx context.Context, n int)
        takeFunc == Func(<<Param("ctx", Context), Param("n", Basic("int"))>>, <<>>)
        \* func(t *pkgA.T) Table
        tableFunc ==
            Func(<<Param("t", Pointer(Named("pkgA", "pkgA", "T")))>>,
                 <<[kind |-> "trace", Name |-> "Table"]>>)
        \* func(res int) Table
        resFunc ==
            Func(<<Param("res", Basic("int"))>>, <<[kind |-> "trace", Name |-> "Table"]>>)
        \* func(options int)
        optionsFunc == Func(<<Param("options", Basic("int"))>>, <<>>)
        \* a hook with a result that is neither a Func nor a Trace
        badFunc == Func(<<>>, <<[kind |-> "other"]>>)
        Driver ==
            Trace("Driver", FALSE, <<Hook("ConnTake", startFunc), Hook("Take", takeFunc)>>)
        DriverConn == Trace("DriverConn", FALSE, <<Hook("Take", takeFunc)>>)
        Table == Trace("Table", TRUE, <<Hook("Take", takeFunc)>>)
        Session == Trace("Session", FALSE, <<Hook("OnTable", tableFunc)>>)
        Broken == Trace("Table", FALSE, <<Hook("Bad", badFunc)>>)
        Result == Trace("Session", FALSE, <<Hook("OnTable", resFunc)>>)
        Options == Trace("Session", FALSE, <<Hook("Take", optionsFunc)>>)
    IN  {Package("own", <<>>, {}, <<>>),
         Package("own", <<"//go:build gtrace", "// +build gtrace">>, {"t"}, <<Driver>>),
         Package("own", <<>>, {}, <<Result>>),
         Package("own", <<>>, {}, <<Options>>),
         Package("own", <<>>, {}, <<DriverConn>>),
         Package("own", <<>>, {}, <<Driver, Table>>),
         Package("own", <<>>, {}, <<Table, Session>>),
         Package("own", <<>>, {}, <<Driver, Table, Session>>),
         Package("own", <<>>, {"Driver"}, <<Driver, DriverConn>>),
         Package("own", <<>>, {"Driver"}, <<Table, Driver, DriverConn>>),
         Package("own", <<>>, {}, <<Driver, Broken>>)}

\* what os.ReadDir(GOROOT/src) gives in the runs of Write
WriteRoots == {Unreadable, Listing({"context"}, {"pkgA"}), Listing({}, {})}

-----------------------------------------------------------------------------
(* The import resolver as a state machine: dependencies are collected from *)
(* types, then importDeps writes the import block.                         *)

NotYet == [done |-> FALSE, ds |-> <<>>]

\* the Writer of the current state, and the next state's
W == Writer(bw, Output, atEOL, depth, scope, pkgScope, std, panicked)
SetWriter(w) ==
    /\ bw' = w.bw
    /\ Output' = w.Output
    /\ atEOL' = w.atEOL
    /\ depth' = w.depth
    /\ scope' = w.scope
    /\ std' = w.std
    /\ panicked' = w.panic

InitImpIdle ==
    /\ deps = <<>>
    /\ goroot = Unreadable
    /\ imported = NotYet

\* the dependencies of a function with one parameter, of the type t (its
\* fields too when t is a struct), are collected
Collect(t) ==
    /\ ~imported.done
    /\ Len(deps) < MaxDeps
    /\ deps' = funcImports(deps, [Params |-> <<[Name |-> "", Type |-> t]>>, Result |-> <<>>])
    /\ UNCHANGED <<genVars, connVars, allocVars, runVars, emitVars, goroot, imported>>

ImportDeps ==
    /\ ~imported.done
    /\ \E r \in importDeps(W, deps, goroot) :
           /\ SetWriter(r.w)
           /\ imported' = [done |-> TRUE, ds |-> r.ds]
    /\ UNCHANGED <<genVars, connVars, runVars, pkgScope, last, nops, deps, goroot>>

NextImports ==
    \/ \E t \in ImportTypes : Collect(t)
    \/ ImportDeps

-----------------------------------------------------------------------------
(* The generated code at run time.  A Func is the sequence of the kinds of *)
(* the results along its stages: <<"func", "none">> is a hook that returns *)
(* a continuation that returns nothing, <<"trace">> a hook that returns a  *)
(* nested trace.  A value is Nil, a function a user set on a trace (it     *)
(* records its call), or a closure of the generated code.                  *)

MaxStages == 2     \* continuation stages of a hook's Func
Args == {1, 2}     \* the arguments of a call
HookOrder == <<"OnX", "OnY">>     \* trace.Hooks
Hooks == {HookOrder[i] : i \in 1..Len(HookOrder)}
Sides == {"A", "B"}
Outcomes == {"ok", "nil", "panic"}     \* what a call of a user's function does

RECURSIVE FuncsOfDepth(_)
FuncsOfDepth(n) ==
    IF n = 0 THEN {<<"none">>, <<"trace">>}
    ELSE {<<"func">> \o f : f \in FuncsOfDepth(n - 1)}
Funcs == UNION {FuncsOfDepth(n) : n \in 0..MaxStages}

\* Func.HasResult, and the Func of a continuation result
HasResult(fn) == fn[1] # "none"
isFuncResult(fn) == fn[1] = "func"
ResultFunc(fn) == Tail(fn)

Nil == [k |-> "nil"]
Void == [k |-> "void"]
ZeroTrace == [k |-> "trace", of |-> "zero"]
UserFunc(side) == [k |-> "user", side |-> side]
NotComposed == [h \in Hooks |-> [k |-> "none"]]

\* what the statements zeroReturn emits return (part_000:726)
zeroReturn(fn) ==
    IF ~HasResult(fn) THEN Void
    ELSE IF isFuncResult(fn) THEN [k |-> "zero"]
    ELSE ZeroTrace

Returned(v) == [val |-> v, log |-> <<>>, cbs |-> 0, panic |-> "none"]
Panicked(e, kind) == [val |-> Void, log |-> e.log, cbs |-> e.cbs, panic |-> kind]

\* a user's function: it records the call, then panics, returns nil for a
\* continuation, or returns a result of its own
userCall(side, fn, args, o) ==
    LET l == <<[side |-> side, args |-> args]>>
    IN  IF o[side] = "panic"
        THEN [val |-> Void, log |-> l, cbs |-> 0, panic |-> "user"]
        ELSE [val |-> IF ~HasResult(fn) THEN Void
                      ELSE IF ~isFuncResult(fn) THEN [k |-> "trace", of |-> side]
                      ELSE IF o[side] = "nil" THEN Nil ELSE UserFunc(side),
              log |-> l, cbs |-> 0, panic |-> "none"]

RECURSIVE call(_, _, _, _, _)
RECURSIVE hookFuncCall(_, _, _, _, _)
RECURSIVE composeHookCall(_, _, _, _, _, _)
RECURSIVE mergedBody(_, _, _, _, _, _)

\* the body of the closure composeHookCall emits, the two calls made in the
\* order `order` (part_000:397 ranges over h1, h2): one deferred recover for
\* the whole closure (370-382), then each function called if it is not nil
\* (397-407), then the composition of the two results (408-418)
mergedBody(fn, hs, order, args, o, cb) ==
    LET zero == IF ~HasResult(fn) THEN Void
                ELSE IF isFuncResult(fn) THEN Nil ELSE ZeroTrace
        \* a panic unwinds the closure: the deferred function recovers it and
        \* tells the callback, and the closure returns its zero results
        unwind(e) == IF cb THEN [val |-> zero, log |-> e.log,
                                 cbs |-> e.cbs + 1, panic |-> "none"]
                     ELSE e
        i1 == order[1]
        i2 == order[2]
        e1 == IF hs[i1] # Nil THEN call(hs[i1], fn, args, o, cb)
              ELSE Returned(zero)
    IN  IF e1.panic # "none" THEN unwind(e1)
        ELSE LET e2 == IF hs[i2] # Nil THEN call(hs[i2], fn, args, o, cb)
                       ELSE Returned(zero)
                 both == [log |-> e1.log \o e2.log, cbs |-> e1.cbs + e2.cbs]
                 rs == [i \in {i1, i2} |-> IF i = i1 THEN e1.val ELSE e2.val]
             IN  IF e2.panic # "none" THEN unwind(Panicked(both, e2.panic))
                 ELSE [val |-> IF ~HasResult(fn) THEN Void
                               ELSE IF isFuncResult(fn)
                               THEN [k |-> "merged", h1 |-> rs[1], h2 |-> rs[2]]
                               ELSE [k |-> "trace", of |-> <<rs[1], rs[2]>>],
                       log |-> both.log, cbs |-> both.cbs, panic |-> "none"]

\* the closure composeHookCall emits, calling h2 before h1
composeHookCallSwapped(fn, h1, h2, args, o, cb) ==
    mergedBody(fn, <<h1, h2>>, <<2, 1>>, args, o, cb)

\* the closure composeHookCall emits, returning the first function's
\* continuation in place of the composition of the two
composeHookCallFirst(fn, h1, h2, args, o, cb) ==
    LET keepFirst(e) == IF e.val.k = "merged" THEN [e EXCEPT !.val.h2 = Nil] ELSE e
    IN  keepFirst(mergedBody(fn, <<h1, h2>>, <<1, 2>>, args, o, cb))

\* the closure composeHookCall emits (part_000:358)
composeHookCall(fn, h1, h2, args, o, cb) ==
    mergedBody(fn, <<h1, h2>>, <<1, 2>>, args, o, cb)

\* hookFuncCall, without the check of a nil continuation
hookFuncCallUnchecked(fn, name, args, o, cb) ==
    LET e == call(name, fn, args, o, cb)
    IN  IF e.panic # "none" \/ ~HasResult(fn) THEN e
        ELSE IF isFuncResult(fn) /\ HasResult(ResultFunc(fn)) /\ e.val # Nil
             THEN [e EXCEPT !.val = [k |-> "wrap", res |-> e.val]]
        ELSE e

\* the statements hookFuncCall emits (part_000:489): call name, return the
\* zero value for a nil continuation (505-509), wrap a continuation that has
\* a result of its own (511-524), else return the result (527)
hookFuncCall(fn, name, args, o, cb) ==
    LET e == call(name, fn, args, o, cb)
    IN  IF e.panic # "none" \/ ~HasResult(fn) THEN e
        ELSE IF isFuncResult(fn) /\ e.val = Nil
             THEN [e EXCEPT !.val = zeroReturn(fn)]
        ELSE IF isFuncResult(fn) /\ HasResult(ResultFunc(fn))
             THEN [e EXCEPT !.val = [k |-> "wrap", res |-> e.val]]
        ELSE e

\* a call v(args) of a value v whose Func is fn
call(v, fn, args, o, cb) ==
    IF v = Nil THEN [val |-> Void, log |-> <<>>, cbs |-> 0, panic |-> "nilcall"]
    ELSE IF v.k = "user" THEN userCall(v.side, fn, args, o)
    ELSE IF v.k = "zero" THEN Returned(zeroReturn(fn))
    ELSE IF v.k = "wrap" THEN hookFuncCall(fn, v.res, args, o, cb)
    ELSE composeHookCall(fn, v.h1, v.h2, args, o, cb)

\* the forwarder Writer.hook emits (part_000:454): the zero value when the
\* hook is not set (476-481), else hookFuncCall
hook(t, h, fn, args, o, cb) ==
    IF t[h] = Nil THEN Returned(zeroReturn(fn))
    ELSE hookFuncCall(fn, t[h], args, o, cb)

\* the body of Compose (part_000:312) with composeHook (345) for every hook
compose(t, x) ==
    [h \in Hooks |-> [k |-> "merged", h1 |-> t[h], h2 |-> x[h]]]

\* the body of isZero (part_000:293): the hooks in their order
isZero(t) ==
    LET RECURSIVE isZeroFrom(_)
        isZeroFrom(i) ==
            IF i > Len(HookOrder) THEN TRUE
            ELSE IF t[HookOrder[i]] # Nil THEN FALSE
            ELSE isZeroFrom(i + 1)
    IN  isZeroFrom(1)

-----------------------------------------------------------------------------
(* The generated code as a state machine: a caller composes the traces a   *)
(* and b, calls hooks and forwarders, and calls what they return.          *)

NoRunCall == [kind |-> "none"]

InitRunIdle ==
    /\ trA = [h \in Hooks |-> Nil]
    /\ trB = [h \in Hooks |-> Nil]
    /\ panicCb = FALSE
    /\ trRet = NotComposed
    /\ hookFn = <<"none">>
    /\ cur = Void
    /\ curFn = <<>>
    /\ lastCall = NoRunCall

InitRun ==
    /\ trA \in [Hooks -> {Nil, UserFunc("A")}]
    /\ trB \in [Hooks -> {Nil, UserFunc("B")}]
    /\ panicCb \in BOOLEAN
    /\ trRet = NotComposed
    /\ hookFn \in Funcs
    /\ cur = Void
    /\ curFn = <<>>
    /\ lastCall = NoRunCall
    /\ InitEmitIdle
    /\ InitConnIdle
    /\ InitImpIdle
    /\ scope = <<EmptyScope>>
    /\ pkgScope = {}
    /\ panicked = NoPanic
    /\ last = NoCall
    /\ nops = 0

TraceOf(name) ==
    CASE name = "a" -> trA
      [] name = "b" -> trB
      [] name = "ret" -> trRet

\* what the caller holds after a call: the result, and its Func
Hold(e, fn) ==
    /\ cur' = e.val
    /\ curFn' = IF e.panic = "none" /\ isFuncResult(fn) THEN ResultFunc(fn) ELSE <<>>

\* a caller starts a chain of calls (a hook or a forwarder, then what it
\* returned, stage by stage) with no other chain under way: the generated code
\* keeps no state between calls, so the chains do not depend on one another
Idle == lastCall.kind \in {"none", "compose"}

\* t.Compose(x, opts...)
Compose ==
    /\ trRet = NotComposed
    /\ trRet' = compose(trA, trB)
    /\ lastCall' = [kind |-> "compose"]
    /\ cur' = Void
    /\ curFn' = <<>>
    /\ UNCHANGED <<genVars, connVars, allocVars, emitVars, impVars, trA, trB, panicCb, hookFn>>

\* the caller invokes the hook h of the composed trace
CallHook(h, args, o) ==
    /\ Idle
    /\ trRet # NotComposed
    /\ LET e == call(trRet[h], hookFn, args, o, panicCb)
       IN  /\ Hold(e, hookFn)
           /\ lastCall' = [kind |-> "hook", via |-> "direct", hook |-> h,
                           callee |-> trRet[h], fn |-> hookFn, args |-> args,
                           o |-> o, res |-> e]
    /\ UNCHANGED <<genVars, connVars, allocVars, emitVars, impVars, trA, trB, panicCb, trRet, hookFn>>

\* the caller invokes the forwarder of the hook h on a trace
CallForwarder(name, h, args, o) ==
    /\ Idle
    /\ name = "ret" => trRet # NotComposed
    /\ LET e == hook(TraceOf(name), h, hookFn, args, o, panicCb)
       IN  /\ Hold(e, hookFn)
           /\ lastCall' = [kind |-> "forwarder", via |-> "forwarder", hook |-> h,
                           callee |-> TraceOf(name)[h], fn |-> hookFn,
                           args |-> args, o |-> o, res |-> e]
    /\ UNCHANGED <<genVars, connVars, allocVars, emitVars, impVars, trA, trB, panicCb, trRet, hookFn>>

\* the caller invokes the continuation the last call returned; only what a
\* forwarder returned is called without a check for nil
CallCont(args, o) ==
    /\ curFn # <<>>
    /\ lastCall.via = "direct" => cur # Nil
    /\ LET e == call(cur, curFn, args, o, panicCb)
       IN  /\ Hold(e, curFn)
           /\ lastCall' = [kind |-> "cont", via |-> lastCall.via,
                           hook |-> lastCall.hook, callee |-> cur, fn |-> curFn,
                           args |-> args, o |-> o, res |-> e]
    /\ UNCHANGED <<genVars, connVars, allocVars, emitVars, impVars, trA, trB, panicCb, trRet, hookFn>>

NextRun ==
    \/ Compose
    \/ \E h \in Hooks, args \in Args, o \in [Sides -> Outcomes] :
           CallHook(h, args, o)
    \/ \E name \in {"a", "b", "ret"}, h \in Hooks, args \in Args,
          o \in [Sides -> Outcomes] : CallForwarder(name, h, args, o)
    \/ \E args \in Args, o \in [Sides -> Outcomes] : CallCont(args, o)

SpecRun == InitRun /\ [][NextRun]_vars

-----------------------------------------------------------------------------
(* Claims about the generated code, checked under SpecRun.                 *)

IsPrefix(p, q) == Len(p) <= Len(q) /\ SubSeq(q, 1, Len(p)) = p

CallOf(side) == [side |-> side, args |-> lastCall.args]

\* the calls a merged hook owes its two sides: a's function, then b's
Owed(c) ==
    (IF c.h1 # Nil THEN <<CallOf("A")>> ELSE <<>>)
        \o (IF c.h2 # Nil THEN <<CallOf("B")>> ELSE <<>>)

\* a function of this side was called and panicked
Faulted(side) ==
    /\ lastCall.o[side] = "panic"
    /\ \E i \in 1..Len(lastCall.res.log) : lastCall.res.log[i].side = side

\* C1: a call of the hook H of Compose(a, b) calls a's H and then b's H, each
\* once, in this order and with the arguments of the call, and only the sides
\* that set H; a call that panics ends the sequence there.
C1_ComposeCallsInOrder ==
    lastCall.kind = "hook" =>
        /\ IsPrefix(lastCall.res.log, Owed(lastCall.callee))
        /\ ~Faulted("A") /\ ~Faulted("B") =>
               lastCall.res.log = Owed(lastCall.callee)

\* H is set on both sides and both are called: the record is A, then B
C1_Witness ==
    /\ lastCall.kind = "hook"
    /\ lastCall.callee.h1 # Nil /\ lastCall.callee.h2 # Nil
    /\ lastCall.args = 2
    /\ lastCall.res.log = <<[side |-> "A", args |-> 2], [side |-> "B", args |-> 2]>>

\* C2 as stated: Compose(a, b).isZero() = (a.isZero() /\ b.isZero()).
C2_IsZeroOfCompose ==
    trRet # NotComposed => (isZero(trRet) <=> (isZero(trA) /\ isZero(trB)))

\* C3 as stated: with the panic callback given and H set on both sides, each
\* panicking call is reported to the callback once and both calls are made.
C3_EachCallGuarded ==
    (/\ lastCall.kind = "hook" /\ panicCb
     /\ lastCall.callee.h1 # Nil /\ lastCall.callee.h2 # Nil) =>
        /\ lastCall.res.log = <<CallOf("A"), CallOf("B")>>
        /\ lastCall.res.panic = "none"
        /\ lastCall.res.cbs = (IF lastCall.o["A"] = "panic" THEN 1 ELSE 0)
                              + (IF lastCall.o["B"] = "panic" THEN 1 ELSE 0)

\* a value a caller can call
Callable(v) == v.k \in {"user", "zero", "wrap", "merged"}

\* the forwarder, or a stage it returned, called a user's function and got nil
UserReturnedNil(callee) ==
    LET f == IF callee.k = "wrap" THEN callee.res ELSE callee
    IN  f.k = "user" /\ lastCall.o[f.side] = "nil"

\* C4: what a forwarder, and every stage it returns, gives back is never nil
\* and calling it never calls nil: it is the zero value of the result when
\* the hook is not set or a nil continuation came back, and the zero value
\* is itself a no-op that returns the zero value of the next stage.
C4_ForwarderNeverNil ==
    (lastCall.kind \in {"forwarder", "cont"} /\ lastCall.via = "forwarder") =>
        LET r == lastCall.res
            fn == lastCall.fn
        IN  /\ r.panic # "nilcall"
            /\ r.panic = "none" =>
                 /\ r.val # Nil
                 /\ isFuncResult(fn) => Callable(r.val)
                 /\ ~HasResult(fn) => r.val = Void
                 /\ (HasResult(fn) /\ ~isFuncResult(fn)) => r.val.k = "trace"
                 /\ lastCall.callee = Nil => r.val = zeroReturn(fn) /\ r.log = <<>>
                 /\ lastCall.callee.k = "zero" =>
                        r.val = zeroReturn(fn) /\ r.log = <<>>
                 /\ (isFuncResult(fn) /\ UserReturnedNil(lastCall.callee)) =>
                        r.val = zeroReturn(fn)

\* the second stage of the forwarder of an unset hook: a no-op that returns
\* the no-op of the third stage
C4_Witness ==
    /\ lastCall.kind = "cont" /\ lastCall.via = "forwarder"
    /\ lastCall.callee = [k |-> "zero"]
    /\ lastCall.res.val = [k |-> "zero"]

\* a forwarder met a nil continuation of a user's function
C4_WitnessNil ==
    /\ lastCall.kind = "forwarder"
    /\ lastCall.callee.k = "user"
    /\ lastCall.o[lastCall.callee.side] = "nil"
    /\ lastCall.res.val = [k |-> "zero"]

\* what a side hands on to the next stage: nothing when its function is not
\* set or returned nil, else the continuation its function returned
C15_Handed(side, h) ==
    IF h = Nil \/ lastCall.o[side] = "nil" THEN Nil ELSE UserFunc(side)

\* C15: at every stage of a hook of Compose(a, b) whose results are
\* continuations, the stage calls a's function and then b's, skipping a side
\* that is not set or that returned nil at the stage before; what it returns
\* is the composition of the two continuations the sides returned, and the
\* stage that has no result returns nothing, which ends the chain.
C15_ContinuationsComposed ==
    (/\ lastCall.kind \in {"hook", "cont"} /\ lastCall.via = "direct"
     /\ lastCall.callee.k = "merged") =>
        LET c == lastCall.callee
            r == lastCall.res
            fn == lastCall.fn
        IN  /\ IsPrefix(r.log, Owed(c))
            /\ (~Faulted("A") /\ ~Faulted("B")) =>
                   /\ r.panic = "none"
                   /\ r.log = Owed(c)
                   /\ isFuncResult(fn) =>
                          /\ cur = [k |-> "merged", h1 |-> C15_Handed("A", c.h1),
                                                    h2 |-> C15_Handed("B", c.h2)]
                          /\ curFn = ResultFunc(fn)
                   /\ ~HasResult(fn) => cur = Void /\ curFn = <<>>

\* the third stage of a hook set on both sides, reached through two
\* continuations: a's function is called, then b's, and nothing is returned
C15_Witness ==
    /\ lastCall.kind = "cont" /\ lastCall.via = "direct"
    /\ hookFn = <<"func", "func", "none">> /\ lastCall.fn = <<"none">>
    /\ lastCall.callee = [k |-> "merged", h1 |-> UserFunc("A"), h2 |-> UserFunc("B")]
    /\ lastCall.res.log = <<CallOf("A"), CallOf("B")>>
    /\ cur = Void

\* a stage at which a's side is skipped, a's function having returned nil at
\* the stage before, and b's continuation is called alone
C15_WitnessSkip ==
    /\ lastCall.kind = "cont" /\ lastCall.via = "direct"
    /\ trA[lastCall.hook] # Nil
    /\ lastCall.callee = [k |-> "merged", h1 |-> Nil, h2 |-> UserFunc("B")]
    /\ lastCall.res.log = <<CallOf("B")>>
    /\ cur = [k |-> "merged", h1 |-> Nil, h2 |-> UserFunc("B")]

-----------------------------------------------------------------------------
(* The allocator as a state machine: any sequence of calls.                *)

InitAlloc ==
    /\ InitRunIdle
    /\ InitEmitIdle
    /\ InitConnIdle
    /\ InitImpIdle
    /\ scope = <<EmptyScope>>
    /\ pkgScope \in SUBSET PkgNames
    /\ panicked = NoPanic
    /\ last = NoCall
    /\ nops = 0

CanCall == panicked = NoPanic /\ nops < MaxOps

Declare(name, site) ==
    /\ CanCall
    /\ LET r == declare(scope, pkgScope, name, site)
       IN  /\ scope' = r.scope
           /\ last' = [op |-> "declare", arg |-> name, site |-> site, ret |-> r.v,
                       before |-> Back(scope), global |-> isGlobalScope(scope)]
    /\ nops' = nops + 1
    /\ UNCHANGED <<genVars, connVars, runVars, emitVars, impVars, pkgScope, panicked>>

MustDeclare(name, site) ==
    /\ CanCall
    /\ LET r == mustDeclare(scope, name, site)
       IN  /\ scope' = r.scope
           /\ panicked' = r.panic
           /\ last' = [op |-> "mustDeclare", arg |-> name, site |-> site,
                       before |-> Back(scope)]
    /\ nops' = nops + 1
    /\ UNCHANGED <<genVars, connVars, runVars, emitVars, impVars, pkgScope>>

Capture(names, site) ==
    /\ CanCall
    /\ LET r == capture(scope, names, site)
       IN  /\ scope' = r.scope
           /\ panicked' = r.panic
           /\ last' = [op |-> "capture", arg |-> names, site |-> site,
                       before |-> Back(scope)]
    /\ nops' = nops + 1
    /\ UNCHANGED <<genVars, connVars, runVars, emitVars, impVars, pkgScope>>

\* Writer.newScope (part_000:896): entering fn
PushScope ==
    /\ panicked = NoPanic
    /\ Len(scope) < MaxScopes
    /\ scope' = Append(scope, EmptyScope)
    /\ last' = NoCall
    /\ UNCHANGED <<genVars, connVars, runVars, emitVars, impVars, pkgScope, panicked, nops>>

\* Writer.newScope (part_000:899): fn returned
PopScope ==
    /\ panicked = NoPanic
    /\ Len(scope) > 1
    /\ scope' = SubSeq(scope, 1, Len(scope) - 1)
    /\ last' = NoCall
    /\ UNCHANGED <<genVars, connVars, runVars, emitVars, impVars, pkgScope, panicked, nops>>

NextAlloc ==
    \/ \E n \in BaseNames, s \in Sites : Declare(n, s)
    \/ \E n \in BaseNames, s \in Sites : MustDeclare(n, s)
    \/ \E ns \in CaptureArgs : Capture(ns, CaptureSite)
    \/ PushScope
    \/ PopScope

SpecAlloc == InitAlloc /\ [][NextAlloc]_vars

-----------------------------------------------------------------------------
(* Claims about the scope allocator, checked under SpecAlloc.              *)

\* what declare may not return: a keyword, a package level symbol when the
\* scope is the outermost one, a name the scope held before the call
Taken(v) ==
    \/ v \in Keywords
    \/ last.global /\ v \in pkgScope
    \/ v \in DOMAIN last.before

\* C7: every name declare returns is registered in the current scope, was not
\* registered in it before the call, is not a reserved word and, in the
\* outermost scope, is not a symbol of the package scope.
C7_DeclareCollisionFree ==
    last.op = "declare" =>
        /\ last.ret \in DOMAIN Back(scope)
        /\ last.ret \notin DOMAIN last.before
        /\ last.ret \notin Keywords
        /\ last.global => last.ret \notin pkgScope

\* a declare of "t" in the outermost scope, "t" a package symbol and "t1" taken
C7_Witness ==
    /\ last.op = "declare" /\ last.global /\ last.arg = "t"
    /\ "t" \in pkgScope /\ "t1" \in DOMAIN last.before
    /\ last.ret = "t2"

\* C8 as stated: the base name when it is free, else the base name followed by
\* the suffixes 0, 1, 2, ... in that order ("t" and then "t0").
C8_Stated(i) == IF i = 0 THEN last.arg ELSE last.arg \o ToString(i - 1)
C8_SuffixesFromZero ==
    last.op = "declare" =>
        \E i \in 0..(MaxOps * 2 + 3) :
            /\ last.ret = C8_Stated(i)
            /\ \A j \in 0..(i - 1) : Taken(C8_Stated(j))

\* C8 amended: a predeclared base name is first cut to its first character;
\* declare returns that name when it is free, else the name followed by the
\* first of the suffixes 1, 2, 3, ... that is free ("t" and then "t1").
C8_Base == IF last.arg \in Predeclared THEN firstChar(last.arg) ELSE last.arg
C8_Name(i) == IF i = 0 THEN C8_Base ELSE C8_Base \o ToString(i)
C8_SuffixesFromOne ==
    last.op = "declare" =>
        \E i \in 0..(MaxOps * 2 + 3) :
            /\ last.ret = C8_Name(i)
            /\ ~Taken(last.ret)
            /\ \A j \in 0..(i - 1) : Taken(C8_Name(j))

\* declare("t") with exactly "t" taken in the scope returns "t1"
C8_Witness ==
    /\ last.op = "declare" /\ last.arg = "t" /\ ~last.global
    /\ DOMAIN last.before = {"t"}
    /\ last.ret = "t1"

\* C9: mustDeclare registers exactly the given name when it is free in the
\* current scope; otherwise it panics with the name and with the location the
\* earlier declaration of the name recorded, and the scope keeps its names.
C9_MustDeclare ==
    last.op = "mustDeclare" =>
        IF last.arg \notin DOMAIN last.before
        THEN /\ panicked = NoPanic
             /\ DOMAIN Back(scope) = DOMAIN last.before \cup {last.arg}
             /\ Back(scope)[last.arg] = last.site
             /\ \A n \in DOMAIN last.before : Back(scope)[n] = last.before[n]
        ELSE /\ panicked = [kind |-> "HardCollision", name |-> last.arg,
                            where |-> last.before[last.arg]]
             /\ Back(scope) = last.before

\* a second mustDeclare of a name, called from another place than the first
C9_Witness ==
    /\ last.op = "mustDeclare"
    /\ panicked.kind = "HardCollision"
    /\ panicked.where # last.site
    /\ nops = 2

\* the first of the names of a capture that is taken when its turn comes: it
\* was registered before the call, or it is given twice (0: there is none)
C16_Taken(i) ==
    \/ last.arg[i] \in DOMAIN last.before
    \/ \E j \in 1..(i - 1) : last.arg[j] = last.arg[i]
C16_FirstTaken ==
    IF \E i \in 1..Len(last.arg) : C16_Taken(i)
    THEN CHOOSE i \in 1..Len(last.arg) :
             C16_Taken(i) /\ \A j \in 1..(i - 1) : ~C16_Taken(j)
    ELSE 0

\* C16: a name that capture registered in the current scope stays registered
\* as it is, and no later declare in that scope returns it; a capture whose
\* names are all free registers exactly them, without renaming; a capture of
\* a name that is taken panics with that name, and what was registered before
\* the call stays as it was.
C16_CaptureOccupies ==
    /\ last.op = "declare" =>
           \A n \in DOMAIN last.before :
               last.before[n] = CaptureSite =>
                   /\ last.ret # n
                   /\ n \in DOMAIN Back(scope)
                   /\ Back(scope)[n] = CaptureSite
    /\ last.op = "capture" =>
           /\ \A n \in DOMAIN last.before :
                  n \in DOMAIN Back(scope) /\ Back(scope)[n] = last.before[n]
           /\ IF C16_FirstTaken = 0
              THEN /\ panicked = NoPanic
                   /\ DOMAIN Back(scope)
                        = DOMAIN last.before \cup {last.arg[i] : i \in 1..Len(last.arg)}
                   /\ \A i \in 1..Len(last.arg) : Back(scope)[last.arg[i]] = CaptureSite
              ELSE /\ panicked.kind = "capture"
                   /\ panicked.name = last.arg[C16_FirstTaken]

\* capture("t", "e") and then declare("error"), whose name is cut to "e"
C16_Witness ==
    /\ last.op = "declare" /\ last.arg = "error"
    /\ DOMAIN last.before = {"t", "e"}
    /\ last.before["e"] = CaptureSite
    /\ last.ret = "e1"

\* a capture of "t", which a declare had registered, panics
C16_PanicWitness ==
    /\ last.op = "capture" /\ panicked = captureMsg("t")
    /\ last.before["t"] \in Sites
-----------------------------------------------------------------------------
(* Claims about the import resolver, checked under SpecImports.            *)

InitImports ==
    /\ InitRunIdle
    /\ InitEmitIdle
    /\ InitConnIdle
    /\ deps = <<>>
    /\ goroot \in Goroots
    /\ imported = NotYet
    /\ scope = <<>>
    /\ pkgScope = {}
    /\ panicked = NoPanic
    /\ last = NoCall
    /\ nops = 0

SpecImports == InitImports /\ [][NextImports]_vars

\* the strings written, when every piece is a whole string
Strings(pieces) == [i \in 1..Len(pieces) |-> pieces[i].s]
Whole(pieces) ==
    \A i \in 1..Len(pieces) : pieces[i].lo = 1 /\ pieces[i].hi = Len(pieces[i].s)

\* the paths collected
C10_Paths == {deps[i].pkgPath : i \in 1..Len(deps)}

\* a path of the standard library: its first segment is a directory of
\* GOROOT/src (cmd and internal aside)
C10_IsStd(p) ==
    \E e \in goroot.entries :
        /\ e.isDir /\ e.name \notin {"cmd", "internal"}
        /\ LET r == Bytes(e.name)
               b == Bytes(p)
           IN  /\ Len(r) <= Len(b)
               /\ SubSeq(b, 1, Len(r)) = r
               /\ Len(b) > Len(r) => b[Len(r) + 1] = 47

\* the paths of a set in increasing order of their bytes
C10_Before(x, y) ==
    \E k \in 1..(Len(x) + 1) :
        /\ k <= Len(y)
        /\ \A i \in 1..(k - 1) : x[i] = y[i]
        /\ k = Len(x) + 1 \/ x[k] < y[k]
C10_Sorted(S) ==
    CHOOSE q \in [1..Cardinality(S) -> S] :
        \A i, j \in 1..Cardinality(S) :
            i < j => C10_Before(Bytes(q[i]), Bytes(q[j]))

RECURSIVE C10_Lines(_)
C10_Lines(q) ==
    IF Len(q) = 0 THEN <<>>
    ELSE <<"\t", "\"", q[1], "\"", "\n">> \o C10_Lines(Tail(q))

C10_Block ==
    LET stds == {p \in C10_Paths : C10_IsStd(p)}
        exts == C10_Paths \ stds
    IN  IF C10_Paths = {} THEN <<>>
        ELSE <<"import (", "\n">>
             \o C10_Lines(C10_Sorted(stds))
             \o (IF stds # {} /\ exts # {} THEN <<"\n">> ELSE <<>>)
             \o C10_Lines(C10_Sorted(exts))
             \o <<")", "\n", "\n">>

\* C10: the import block lists the standard library paths, then the others,
\* each group in increasing order of path, one blank line between two groups
\* that are both there; no dependency, no import block.
C10_ImportBlockOrder ==
    (imported.done /\ panicked = NoPanic) =>
        /\ Output = <<>> /\ Whole(bw.buf)
        /\ Strings(bw.buf) = C10_Block

\* pkgB, stdA and pkgA were collected in this order, stdA is standard
C10_Witness ==
    /\ imported.done /\ panicked = NoPanic
    /\ [i \in 1..Len(deps) |-> deps[i].pkgPath] = <<"pkgB", "stdA", "pkgA">>
    /\ Strings(bw.buf) =
         <<"import (", "\n", "\t", "\"", "stdA", "\"", "\n", "\n",
           "\t", "\"", "pkgA", "\"", "\n", "\t", "\"", "pkgB", "\"", "\n",
           ")", "\n", "\n">>


\* the paths importDeps has written: each between two quotes
ImportedPaths ==
    {i \in 2..(Len(bw.buf) - 1) : bw.buf[i - 1].s = "\"" /\ bw.buf[i + 1].s = "\""}

\* C11: the import block has each path that was collected exactly once and
\* no other path, however the paths are repeated in the list collected: the
\* deduplication leaves no duplicate and drops no path.
C11_EachPathOnce ==
    (imported.done /\ panicked = NoPanic) =>
        /\ {imported.ds[i].pkgPath : i \in 1..Len(imported.ds)} = C10_Paths
        /\ \A i, j \in 1..Len(imported.ds) :
               i # j => imported.ds[i].pkgPath # imported.ds[j].pkgPath
        /\ {bw.buf[i].s : i \in ImportedPaths} = C10_Paths
        /\ Cardinality(ImportedPaths) = Cardinality(C10_Paths)

\* pkgA was collected twice and then, with the struct pkgB.S, twice more:
\* the dependency swapped in for a duplicate is a duplicate itself
C11_Witness ==
    /\ imported.done /\ panicked = NoPanic
    /\ [i \in 1..Len(deps) |-> deps[i].pkgPath] = <<"pkgA", "pkgA", "pkgB", "pkgA", "pkgA">>
    /\ Cardinality(ImportedPaths) = 2

\* the dependency of the path p that was collected first
FirstCollected(p) ==
    deps[CHOOSE j \in 1..Len(deps) :
             deps[j].pkgPath = p /\ \A k \in 1..(j - 1) : deps[k].pkgPath # p]
\* the paths collected more than once
Repeated ==
    {p \in C10_Paths : Cardinality({j \in 1..Len(deps) : deps[j].pkgPath = p}) > 1}

\* C17 as stated: of the dependencies of one path the one collected first is
\* left by the deduplication, however the duplicates are arranged.
C17_FirstSeenWins ==
    (imported.done /\ panicked = NoPanic) =>
        \A i \in 1..Len(imported.ds) :
            imported.ds[i] = FirstCollected(imported.ds[i].pkgPath)

\* C17 amended: of the dependencies of one path one that was collected is
\* left by the deduplication; it is the one collected first when no more
\* than one path is repeated in the list.
C17_SurvivorCollected ==
    (imported.done /\ panicked = NoPanic) =>
        \A i \in 1..Len(imported.ds) :
            /\ \E j \in 1..Len(deps) : deps[j] = imported.ds[i]
            /\ Cardinality(Repeated) <= 1 =>
                   imported.ds[i] = FirstCollected(imported.ds[i].pkgPath)

\* two paths are repeated, and of one of them a dependency collected later
\* is left
C17_Witness ==
    /\ imported.done /\ panicked = NoPanic
    /\ Cardinality(Repeated) = 2
    /\ \E i \in 1..Len(imported.ds) :
           imported.ds[i] # FirstCollected(imported.ds[i].pkgPath)

-----------------------------------------------------------------------------
(* Write as a state machine: runs of Write on one Writer, one after the    *)
(* other.  A run that panics ends the use of the Writer.                   *)

MaxRuns == 2     \* runs of Write on the Writer

InitWrite ==
    /\ InitRunIdle
    /\ InitEmitIdle
    /\ InitConnIdle
    /\ deps = <<>>
    /\ goroot \in WriteRoots
    /\ imported = NotYet
    /\ scope = <<>>
    /\ pkgScope = {}
    /\ panicked = NoPanic
    /\ last = NoCall
    /\ nops = 0

\* Writer.Write (part_000:38) on the Package p; the run is recorded with the
\* part of Output it has written and with the number of its possible outcomes
Run(p) ==
    /\ panicked = NoPanic
    /\ Len(runs) < MaxRuns
    /\ LET xs == Write(W, once, p, goroot)
       IN  \E x \in xs :
               /\ SetWriter(x.w)
               /\ runs' = Append(runs, [p |-> p, from |-> Len(Output),
                                        to |-> Len(x.w.Output),
                                        outcomes |-> Cardinality(xs),
                                        sections |-> x.sections,
                                        idents |-> x.idents])
    /\ pkgScope' = p.Scope
    /\ once' = TRUE
    /\ UNCHANGED <<runVars, impVars, connVars, last, nops>>

NextWrite == \E p \in Packages : Run(p)

SpecWrite == InitWrite /\ [][NextWrite]_vars

-----------------------------------------------------------------------------
(* Claims about Write, checked under SpecWrite.                            *)

\* the pieces the i-th run has passed on to Output, and their bytes
OutputOf(i) == SubSeq(Output, runs[i].from + 1, runs[i].to)
Aborted == runs # <<>> /\ panicked # NoPanic
Completed(i) == i \in 1..Len(runs) /\ (i < Len(runs) \/ panicked = NoPanic)

\* C5: a run of Write that aborts with a panic, after whatever amount of text
\* it has emitted, has passed no byte on to Output.
C5_NoOutputOnAbort == Aborted => OutputOf(Len(runs)) = <<>>

\* every run that completes has one possible outcome, and a Package gives
\* the same pieces of output in every run that completes
C6_SameOutput ==
    /\ \A i \in 1..Len(runs) : Completed(i) => runs[i].outcomes = 1
    /\ \A i, j \in 1..Len(runs) :
           (Completed(i) /\ Completed(j) /\ runs[i].p = runs[j].p)
               => OutputOf(i) = OutputOf(j)

\* C6 as stated: a Package gives the same output in every run that
\* completes, also on a Writer that has run before, and a run that completes
\* leaves the scope stack, the depth and the end-of-line state as they were
\* at first (no scope, depth 0, atEOL false).
C6_Stated ==
    /\ C6_SameOutput
    /\ (runs # <<>> /\ panicked = NoPanic) =>
           (scope = <<>> /\ depth = 0 /\ bw = EmptyBuf /\ atEOL = FALSE)

\* C6 amended: a Package gives the same output in every run that completes,
\* also on a Writer that has run before; a run that completes leaves no
\* scope, depth 0 and an empty buffer, and it leaves atEOL true, which writes
\* no indentation at depth 0.
C6_Idempotent ==
    /\ C6_SameOutput
    /\ (runs # <<>> /\ panicked = NoPanic) =>
           (scope = <<>> /\ depth = 0 /\ bw = EmptyBuf /\ atEOL = TRUE)

\* two completed runs on one Writer over a Package with traces and imports,
\* each with more output than the buffer holds
C6_Witness ==
    /\ Len(runs) = 2 /\ panicked = NoPanic
    /\ runs[1].p = runs[2].p
    /\ Len(runs[1].p.Traces) = 3
    /\ OutputOf(2) # <<>>
    /\ \E i \in 1..Len(OutputOf(2)) : OutputOf(2)[i].lo > 1

-----------------------------------------------------------------------------
(* Claims about the text of the shortcuts, checked under SpecWrite.        *)

\* the Funcs of the stages of a hook: its own, then that of its result
RECURSIVE StagesOf(_)
StagesOf(fn) ==
    IF FuncHasResult(fn) /\ fn.Result[1].kind = "func"
    THEN <<fn>> \o StagesOf(fn.Result[1].fn) ELSE <<fn>>

\* the Funcs of a Package
FuncsOf(p) ==
    UNION {UNION {{StagesOf(p.Traces[i].Hooks[j].Func)[k] :
                      k \in 1..Len(StagesOf(p.Traces[i].Hooks[j].Func))} :
                  j \in 1..Len(p.Traces[i].Hooks)} : i \in 1..Len(p.Traces)}

\* the exported fields of a struct type, in the order of their declaration
ExportedFields(t) == SelectSeq(t.fields, LAMBDA f : f.Exported)

\* for the Func fn, whose shortcut takes the positional parameters named by
\* names: the flattened parameters are, in the order of declaration, the
\* parameters that are no struct and the exported fields of those that are;
\* the reconstruction takes every name, each once and in this order; and a
\* struct is rebuilt with each exported field set from the name at the
\* position of the field
Inverse(fn, names) ==
    LET flat == flattenParams(fn.Params)
        c == constructParams(fn.Params, 1, names, 0)
        assigns(p) == SelectSeq(c.steps, LAMBDA s : s.site = 615 /\ s.args[1] = <<p>>)
        taken(i) ==
            IF unwrapStruct(fn.Params[i].Type)
            THEN [j \in 1..Len(assigns(c.res[i])) |-> assigns(c.res[i])[j].args[5][1]]
            ELSE <<c.res[i]>>
        types(i) ==
            IF unwrapStruct(fn.Params[i].Type)
            THEN [j \in 1..Len(ExportedFields(fn.Params[i].Type)) |->
                     ExportedFields(fn.Params[i].Type)[j].Type]
            ELSE <<fn.Params[i].Type>>
    IN  /\ Len(names) = Len(flat)
        /\ [j \in 1..Len(flat) |-> flat[j].Type]
               = flatten([i \in 1..Len(fn.Params) |-> types(i)])
        /\ Len(c.res) = Len(fn.Params)
        /\ c.rest = <<>>
        /\ flatten([i \in 1..Len(fn.Params) |-> taken(i)]) = names
        /\ \A i \in 1..Len(fn.Params) :
               unwrapStruct(fn.Params[i].Type) =>
                   [j \in 1..Len(assigns(c.res[i])) |-> assigns(c.res[i])[j].args[3][1]]
                       = [j \in 1..Len(ExportedFields(fn.Params[i].Type)) |->
                             ExportedFields(fn.Params[i].Type)[j].Name]

\* C12: flattening and reconstruction are inverse.  In every run, for every
\* hook and every stage of it, the shortcut takes one positional parameter
\* for each parameter that is no struct and for each exported field of each
\* struct parameter, in the order of declaration; the struct it rebuilds has
\* each exported field set from the parameter at the position of the field;
\* the reconstruction takes as many names as there are flattened parameters;
\* and the positional parameters of one shortcut have names of their own.
C12_FlattenConstructInverse ==
    \A r \in 1..Len(runs) :
        /\ \A fn \in FuncsOf(runs[r].p) :
               Inverse(fn, keys("@n0.", Len(flattenParams(fn.Params))))
        /\ \A i, j \in 1..Len(runs[r].idents) :
               (/\ i # j
                /\ runs[r].idents[i].kind = "shortcut"
                /\ runs[r].idents[i].fn = runs[r].idents[j].fn)
                   => runs[r].idents[i].name # runs[r].idents[j].name

\* a run has written the shortcut of a hook with a struct parameter that has
\* exported fields and one that is not exported
C12_Witness ==
    /\ runs # <<>> /\ panicked = NoPanic
    /\ \E fn \in FuncsOf(runs[Len(runs)].p) :
           \E i \in 1..Len(fn.Params) :
               /\ unwrapStruct(fn.Params[i].Type)
               /\ Len(ExportedFields(fn.Params[i].Type)) = 2
               /\ Len(fn.Params[i].Type.fields) = 3
    /\ \E s \in 1..Len(runs[Len(runs)].sections) :
           runs[Len(runs)].sections[s][1] = "shortcut"

-----------------------------------------------------------------------------
(* Claims about the order of the text, checked under SpecWrite.            *)

\* the text a run that completes has written before the import block: the
\* marker, the build constraints after an empty line, and between two
\* empty lines the package declaration
HeaderOf(p) ==
    <<"// Code generated by gtrace. DO NOT EDIT.", "\n">>
    \o (IF p.BuildConstraints = <<>> THEN <<>> ELSE <<"\n">>)
    \o flatten([i \in 1..Len(p.BuildConstraints) |-> <<p.BuildConstraints[i], "\n">>])
    \o <<"\n", "package ", p.Name, "\n", "\n">>

\* the sections of the traces in the order stated
SectionsOf(p) ==
    flatten([i \in 1..Len(p.Traces) |->
                <<<<"options", p.Traces[i].Name, "">>, <<"compose", p.Traces[i].Name, "">>>>
                \o (IF p.Traces[i].Nested THEN <<<<"isZero", p.Traces[i].Name, "">>>>
                    ELSE <<>>)
                \o [j \in 1..Len(p.Traces[i].Hooks) |->
                       <<"hook", p.Traces[i].Name, p.Traces[i].Hooks[j].Name>>]])
    \o flatten([i \in 1..Len(p.Traces) |->
                   [j \in 1..Len(p.Traces[i].Hooks) |->
                       <<"shortcut", p.Traces[i].Name, p.Traces[i].Hooks[j].Name>>]])

\* the first line of the options of a trace
OptionsLine(trace) ==
    "// " \o unexported(trace.Name) \o "ComposeOptions is a holder of options"

\* in the text the header comes first, then the import block when a type of
\* another package is referred to, then the options of the first trace
HeaderFirst(p, text) ==
    LET h == Len(HeaderOf(p))
        imports == \E i \in 1..Len(p.Traces) : traceImports(<<>>, p.Traces[i]) # <<>>
        first == CHOOSE k \in 1..Len(text) :
                     /\ text[k] = OptionsLine(p.Traces[1])
                     /\ \A j \in 1..(k - 1) : text[j] # OptionsLine(p.Traces[1])
    IN  /\ Len(text) >= h
        /\ SubSeq(text, 1, h) = HeaderOf(p)
        /\ \A k \in 1..Len(text) : text[k] = "import (" => (imports /\ k = h + 1)
        /\ p.Traces = <<>> => Len(text) = h
        /\ p.Traces # <<>> =>
               /\ \E k \in 1..Len(text) : text[k] = OptionsLine(p.Traces[1])
               /\ IF imports
                  THEN text[h + 1] = "import ("
                       /\ SubSeq(text, first - 3, first - 1) = <<")", "\n", "\n">>
                       /\ \A k \in (h + 2)..(first - 4) :
                              text[k] \in {"\t", "\"", "\n"}
                                  \/ \E i \in 1..Len(p.Traces) :
                                         \E d \in 1..Len(traceImports(<<>>, p.Traces[i])) :
                                             text[k] = traceImports(<<>>, p.Traces[i])[d].pkgPath
                  ELSE first = h + 1

\* C13: a run that completes has written the marker, the build constraints
\* in their order, the package declaration and the import block, then for
\* each trace in order its options, Compose, isZero if and only if it is
\* nested, and the forwarder of each hook in order, and after the forwarders
\* of the last trace the shortcuts of all traces, by trace and then by hook.
C13_SectionOrder ==
    \A r \in 1..Len(runs) :
        Completed(r) =>
            /\ runs[r].sections = SectionsOf(runs[r].p)
            /\ HeaderFirst(runs[r].p, Strings(OutputOf(r)))

\* a run has completed on a Package with a build constraint and imports,
\* and one on a Package of three traces, one of them nested
C13_Witness ==
    /\ Len(runs) = 2 /\ panicked = NoPanic
    /\ runs[1].p.BuildConstraints # <<>>
    /\ Len(runs[2].p.Traces) = 3
    /\ \E s \in 1..Len(runs[2].sections) : runs[2].sections[s][1] = "isZero"
    /\ \E k \in 1..Len(OutputOf(2)) : OutputOf(2)[k].s = "import ("

-----------------------------------------------------------------------------
(* Claims about the names in the text, checked under SpecWrite.  The runs  *)
(* record the identifiers the text introduces (a receiver, a parameter, a  *)
(* local of the body) with the function or block of the text they are      *)
(* introduced into.                                                        *)

\* C14: no two identifiers that the text introduces into one function or
\* block (its receiver, its parameters, the locals of its body) have the
\* same name, whatever the parameters of the hooks are named.
C14_BlockNamesDistinct ==
    \A r \in 1..Len(runs) :
        \A i, j \in 1..Len(runs[r].idents) :
            (i # j /\ runs[r].idents[i].fn = runs[r].idents[j].fn)
                => runs[r].idents[i].name # runs[r].idents[j].name

\* C18: no parameter and no result variable of a closure that Compose
\* returns for a hook or for a continuation is named options, the name the
\* closure refers to the options of Compose by.
C18_OptionsNotShadowed ==
    \A r \in 1..Len(runs) :
        \A i \in 1..Len(runs[r].idents) :
            runs[r].idents[i].kind = "compose" => runs[r].idents[i].name # "options"

-----------------------------------------------------------------------------
(* The Connector (query/transaction.go).  The callers of Close run         *)
(* concurrently with one another, with Connect and with the goroutine Open *)
(* starts to close the idle connections.  A step is one operation on the   *)
(* channel done, on the map conns or on the context, together with the     *)
(* statements of the goroutine that lead to it.                            *)

MaxCallers == 2    \* goroutines that call Close
MaxConns == 2      \* connections made by Connect
MaxOnClose == 1    \* callbacks the options register

Callers == 1..MaxCallers
ConnIds == 1..MaxConns

NotCalled == [pc |-> "idle", i |-> 0, ret |-> "none"]
NoReaper == [pc |-> "none", left |-> {}]
Started == [pc |-> "select", left |-> {}]

\* Open (transaction.go:326): done is made, the options register callbacks
\* and may set idleThreshold; the goroutine is started if it is positive
InitConnector ==
    /\ InitRunIdle
    /\ InitEmitIdle
    /\ InitImpIdle
    /\ scope = <<>>
    /\ pkgScope = {}
    /\ panicked = NoPanic
    /\ last = NoCall
    /\ nops = 0
    /\ doneChan = FALSE
    /\ \E n \in 0..MaxOnClose : onCLose = [i \in 1..n |-> 0]
    /\ conns = {}
    /\ opened = {}
    /\ ctxDone = FALSE
    /\ closing = [c \in Callers |-> NotCalled]
    /\ reaper \in {NoReaper, Started}
    /\ reaped = {}

Rest == <<allocVars, runVars, emitVars, impVars, genVars>>

\* Close (transaction.go:312-315): the select on done; a closed channel is
\* ready, else the default case is taken
CloseSelect(c) ==
    /\ closing[c].pc = "idle"
    /\ closing' = [closing EXCEPT ![c] =
                      IF doneChan THEN [pc |-> "returned", i |-> 0, ret |-> "errAlreadyClosed"]
                      ELSE [pc |-> "default", i |-> 0, ret |-> "none"]]
    /\ UNCHANGED <<Rest, doneChan, onCLose, conns, opened, ctxDone, reaper, reaped>>

\* Close (transaction.go:316): close(c.done); closing a closed channel panics
CloseDone(c) ==
    /\ closing[c].pc = "default"
    /\ doneChan' = TRUE
    /\ closing' = [closing EXCEPT ![c] =
                      IF doneChan THEN [pc |-> "panicked", i |-> 0,
                                    ret |-> "close of closed channel"]
                      ELSE [pc |-> "onClose", i |-> 1, ret |-> "none"]]
    /\ UNCHANGED <<Rest, onCLose, conns, opened, ctxDone, reaper, reaped>>

\* Close (transaction.go:318-320): the next callback is called
CloseOnClose(c) ==
    /\ closing[c].pc = "onClose"
    /\ closing[c].i <= Len(onCLose)
    /\ onCLose' = [onCLose EXCEPT ![closing[c].i] = @ + 1]
    /\ closing' = [closing EXCEPT ![c].i = @ + 1]
    /\ UNCHANGED <<Rest, doneChan, conns, opened, ctxDone, reaper, reaped>>

\* Close (transaction.go:322): return nil
CloseReturn(c) ==
    /\ closing[c].pc = "onClose"
    /\ closing[c].i > Len(onCLose)
    /\ closing' = [closing EXCEPT ![c] = [pc |-> "returned", i |-> 0, ret |-> "nil"]]
    /\ UNCHANGED <<Rest, doneChan, onCLose, conns, opened, ctxDone, reaper, reaped>>

\* Connect (transaction.go:255): a connection with a new id is put in conns
Connect(id) ==
    /\ id \notin opened
    /\ opened' = opened \cup {id}
    /\ conns' = conns \cup {id}
    /\ UNCHANGED <<Rest, doneChan, onCLose, ctxDone, closing, reaper, reaped>>

\* xcontext.WithDone (transaction.go:349): the context is done some time
\* after done is closed
CtxCancel ==
    /\ reaper.pc # "none"
    /\ doneChan /\ ~ctxDone
    /\ ctxDone' = TRUE
    /\ UNCHANGED <<Rest, doneChan, onCLose, conns, opened, closing, reaper, reaped>>

\* the goroutine (transaction.go:354-357): the select takes ctx.Done()
ReaperStop ==
    /\ reaper.pc = "select"
    /\ ctxDone
    /\ reaper' = [pc |-> "stopped", left |-> {}]
    /\ UNCHANGED <<Rest, doneChan, onCLose, conns, opened, ctxDone, closing, reaped>>

\* the goroutine (transaction.go:358-360): the select takes the timer, and
\* Range starts on the connections of the map
ReaperTimer ==
    /\ reaper.pc = "select"
    /\ reaper' = [pc |-> "range", left |-> conns]
    /\ UNCHANGED <<Rest, doneChan, onCLose, conns, opened, ctxDone, closing, reaped>>

\* whether a call of Close has returned nil
Closed == \E c \in DOMAIN closing : closing[c].ret = "nil"

\* the goroutine (transaction.go:360-366): Range comes to the connection
\* id; it is closed, which deletes it from conns, if it was not used for
\* longer than idleThreshold
ReaperVisit(id, idle) ==
    /\ reaper.pc = "range"
    /\ id \in reaper.left
    /\ reaper' = [reaper EXCEPT !.left = @ \ {id}]
    /\ IF idle /\ id \in conns
       THEN /\ conns' = conns \ {id}
            /\ reaped' = reaped \cup {[id |-> id, late |-> Closed]}
       ELSE UNCHANGED <<conns, reaped>>
    /\ UNCHANGED <<Rest, doneChan, onCLose, opened, ctxDone, closing>>

\* the goroutine (transaction.go:366-368): Range is over, the loop goes on
ReaperNext ==
    /\ reaper.pc = "range"
    /\ reaper.left = {}
    /\ reaper' = [pc |-> "select", left |-> {}]
    /\ UNCHANGED <<Rest, doneChan, onCLose, conns, opened, ctxDone, closing, reaped>>

NextConnector ==
    \/ \E c \in Callers : CloseSelect(c)
    \/ \E c \in Callers : CloseDone(c)
    \/ \E c \in Callers : CloseOnClose(c)
    \/ \E c \in Callers : CloseReturn(c)
    \/ \E id \in ConnIds : Connect(id)
    \/ CtxCancel
    \/ ReaperStop
    \/ ReaperTimer
    \/ \E id \in ConnIds, idle \in BOOLEAN : ReaperVisit(id, idle)
    \/ ReaperNext

SpecConnector == InitConnector /\ [][NextConnector]_vars

-----------------------------------------------------------------------------
(* Claims about the Connector, checked under SpecConnector.                *)

\* C19, the calls of Close: no call of Close panics, no callback is called
\* more than once, and of the calls that have returned at most one returned
\* nil and every other one errAlreadyClosed; once done is closed and no call
\* is under way, one call has returned nil and every callback was called.
C19_CloseOnce ==
    /\ \A c \in Callers : closing[c].pc # "panicked"
    /\ \A i \in 1..Len(onCLose) : onCLose[i] <= 1
    /\ Cardinality({c \in Callers : closing[c].ret = "nil"}) <= 1
    /\ \A c \in Callers :
           closing[c].pc = "returned" => closing[c].ret \in {"nil", "errAlreadyClosed"}
    /\ (doneChan /\ \A c \in Callers : closing[c].pc \in {"idle", "returned"}) =>
           /\ \E c \in Callers : closing[c].ret = "nil"
           /\ \A i \in 1..Len(onCLose) : onCLose[i] = 1

\* C19, the goroutine: it closes no connection once a Close has returned nil
C19_ReaperQuiet == \A r \in reaped : ~r.late

\* two callers took the default case of the select before either of them
\* closed done: the second close(c.done) panics
C19_DoubleClose ==
    \E c, d \in Callers :
        /\ closing[c].pc = "panicked"
        /\ closing[d].pc = "returned" /\ closing[d].ret = "nil"

\* calls of Close that do not overlap: the first returns nil, the second
\* errAlreadyClosed
C19_OneAfterTheOther ==
    /\ closing[1] = [pc |-> "returned", i |-> 0, ret |-> "nil"]
    /\ closing[2] = [pc |-> "returned", i |-> 0, ret |-> "errAlreadyClosed"]
    /\ \A i \in 1..Len(onCLose) : onCLose[i] = 1

=============================================================================
